---- MODULE Spec2Model ----
(***************************************************************************)
(* A model of the file_scanner package: the traversal engine               *)
(* (core/scanner.py), the catalog store (database/catalog.py,              *)
(* database/base.py), the statistics store (database/stats.py), the scan   *)
(* history service (services/database_service.py), the file name parser    *)
(* (core/file_parser.py), the directory analyzer (core/directory_parser.py)*)
(* and the tagger and metadata service (core/metadata.py). Each component  *)
(* has a specification of its own, in which the variables of the others    *)
(* stay idle; the metadata service runs together with its analyzer.        *)
(*                                                                         *)
(* Names are sequences of one-character strings, paths are sequences of    *)
(* names, so that startswith, suffix, lower and relative_to are computed   *)
(* the way pathlib computes them.                                          *)
(***************************************************************************)
EXTENDS Integers, Sequences, FiniteSets, TLC

\* ------------------------------------------------------------------ bounds
MaxFiles == 3      \* most files present in the scanned tree
MaxSize == 1       \* largest st_size a stat call reports
MaxCatFiles == 2500 \* most file records of a scan result handed to create_catalog
MaxScans == 3      \* most save_scan_results calls in one behaviour
MaxCatalogs == 3   \* most catalogs rows before create_catalog stops being called
MaxReFiles == 1    \* most file records of a scan result that is catalogued again
MaxStarts == 2     \* most init_db calls on one database file
MaxSvcCalls == 4   \* most DatabaseService calls and clock advances in one behaviour
MaxPieces == 2     \* most pieces a parsed file stem is built from
MaxSubdirs == 4    \* most subdirectories the analysed root directory lists
MaxOffset == 1     \* how far from each bound of the size ladder the file sizes go
MaxMetaCalls == 5  \* most MetadataService calls in one behaviour
MaxStems == 3      \* most files drawn for a directory of named files

\* ------------------------------------------------------- program constants
batch_size == 1000   \* catalog.py line 177
CURRENT_VERSION == 4 \* database_service.py line 76
BATCH_SIZE == 1000   \* database_service.py line 74
MAX_SCAN_AGE_DAYS == 30 \* database_service.py line 75

VARIABLES
    \* ---- FileScanner
    rootKind,         \* what the root path names: "missing", "file" or "dir"
    options,          \* ScanOptions
    entries,          \* what root_path.rglob("*") enumerates, in order
    pc,               \* position in __init__ / scan()
    raised,           \* exception that left the constructor or scan(), "" if none
    enumIdx,          \* next entry _scan_files tests
    file_paths,       \* list(self._scan_files())
    total_files,      \* len(file_paths)
    procIdx,          \* index in file_paths of the file being processed
    cur,              \* <<file_info>> of the file being processed, or <<>>
    partIdx,          \* next part of the parent's relative path to materialise
    files,            \* files: List[FileInfo]
    directories,      \* directories: List[DirectoryInfo]
    processed_dirs,   \* processed_dirs: set
    extension_stats,  \* extension_stats: Dict[str, {count, size}]
    total_size,       \* total_size
    result,           \* <<ScanResult>> once scan() returned, <<>> before
    testFailed,       \* paths whose test in _scan_files raised (history)
    statFailed,       \* paths whose processing raised (history)
    interruptPc,      \* where a KeyboardInterrupt arrived, "" if none (history)
    \* ---- CatalogManager
    cat_pc,           \* position in create_catalog
    cat_raised,       \* exception that left create_catalog, "" if none
    cat_input,        \* the scan result given: [nfiles, ndirs]
    catalogs,         \* rows of table catalogs
    dir_tx,           \* committed transactions on table directories
    file_tx,          \* committed transactions on table files
    cat_i,            \* loop variable i of the file batch loop
    \* ---- StatsManager
    scan_results,     \* rows of table scan_results
    file_types,       \* rows of table file_types
    stats_calls,      \* number of save_scan_results calls made
    stats_last,       \* outcome of the last call per root path (history)
    \* ---- DatabaseService: schema of data/scan_history.db
    db_schema,        \* columns of each table, {} for a table that does not exist
    db_indexes,       \* names of the indexes that exist
    db_version,       \* committed rows of table version (the version numbers)
    mig_pc,           \* position in init_db / _migrate_database
    mig_todo,         \* statements _migrate_database has still to execute
    mig_view,         \* rows of table version as the open connection sees them
    mig_start,        \* current_version as init_db read it
    mig_applied,      \* steps completed by this init_db call (history)
    mig_raised,       \* exception that left init_db, "" if none
    mig_runs,         \* init_db calls begun so far
    \* ---- DatabaseService: rows of data/scan_history.db and the object
    svc_pc,           \* "down", "up", or "saving" inside process_scan_result
    svc_now,          \* datetime.now(), in days
    svc_scans,        \* committed rows of table scans
    svc_files,        \* committed rows of table files, as batches
    svc_tx,           \* rows the open connection has inserted and not committed
    svc_input,        \* the scan result given to process_scan_result
    svc_i,            \* files of the scan result handled so far
    _entries,         \* self._entries, as batches
    _current_scan,    \* <<ScanInfo>> or <<>>
    svc_notified,     \* calls delivered to the observer, in order
    svc_raised,       \* exception that left the last call, "" if none
    svc_calls,        \* calls and clock advances so far
    \* ---- FileNameParser
    parse_pc,         \* "ready" before parse_file_name, "done" after
    parse_path,       \* name of the file_path given
    parsed,           \* <<ParsedName>> once parse_file_name returned
    \* ---- DirectoryAnalyzer
    da_pc,            \* "ready" before analyze_directory, "running", "done"
    da_tree,          \* the directory tree under the root path given
    da_stack,         \* the calls of _analyze_recursive in progress, innermost last
    da_groups,        \* self.groups
    da_result,        \* <<DirectoryGroup>> once analyze_directory returned
    da_returned,      \* the group each finished _analyze_recursive call returned (history)
    da_raised,        \* paths whose try block raised (history)
    da_differing,     \* <<path, code>>: line 144 found code differing at path (history)
    \* ---- AutoTagger
    tag_pc,           \* "ready" before generate_tags, "done" after
    tag_input,        \* the arguments given and what stat() gives for the file
    tag_result,       \* the set of tags generate_tags returned
    \* ---- MetadataService
    meta_metadata,    \* self.metadata: path -> tags, patterns, directory_group
    meta_patterns,    \* pattern_analyzer.patterns: matches and examples of each pattern
    meta_calls,       \* calls made so far
    meta_matched,     \* analyze_file calls in which each pattern matched (history)
    meta_last         \* the last call and self.metadata before it (history)

scanVars == <<rootKind, options, entries, pc, raised, enumIdx, file_paths,
              total_files, procIdx, cur, partIdx, files, directories,
              processed_dirs, extension_stats, total_size, result,
              testFailed, statFailed, interruptPc>>
catVars == <<cat_pc, cat_raised, cat_input, catalogs, dir_tx, file_tx, cat_i>>
statsVars == <<scan_results, file_types, stats_calls, stats_last>>
migVars == <<db_schema, db_indexes, db_version, mig_pc, mig_todo, mig_view,
             mig_start, mig_applied, mig_raised, mig_runs>>
svcVars == <<svc_pc, svc_now, svc_scans, svc_files, svc_tx, svc_input, svc_i,
             _entries, _current_scan, svc_notified, svc_raised, svc_calls>>
parseVars == <<parse_pc, parse_path, parsed>>
daVars == <<da_pc, da_tree, da_stack, da_groups, da_result, da_returned,
            da_raised, da_differing>>
tagVars == <<tag_pc, tag_input, tag_result>>
metaVars == <<meta_metadata, meta_patterns, meta_calls, meta_matched, meta_last>>
vars == <<scanVars, catVars, statsVars, migVars, svcVars, parseVars, daVars,
          tagVars, metaVars>>

\* what an action of one component leaves alone
notScanVars ==
    <<catVars, statsVars, migVars, svcVars, parseVars,
      daVars, tagVars, metaVars>>
notCatVars ==
    <<scanVars, statsVars, migVars, svcVars, parseVars,
      daVars, tagVars, metaVars>>
notStatsVars ==
    <<scanVars, catVars, migVars, svcVars, parseVars,
      daVars, tagVars, metaVars>>
notMigVars ==
    <<scanVars, catVars, statsVars, svcVars, parseVars,
      daVars, tagVars, metaVars>>
notParseVars ==
    <<scanVars, catVars, statsVars, migVars, svcVars,
      daVars, tagVars, metaVars>>
notSvcVars ==
    <<scanVars, catVars, statsVars, migVars, parseVars,
      daVars, tagVars, metaVars>>
notTagVars ==
    <<scanVars, catVars, statsVars, migVars, svcVars,
      parseVars, daVars, metaVars>>
notMetaVars ==
    <<scanVars, catVars, statsVars, migVars, svcVars, parseVars, daVars,
      tagVars>>
notDaVars ==
    <<scanVars, catVars, statsVars, migVars, svcVars,
      parseVars, tagVars, metaVars>>

\* ------------------------------------------------------------ str helpers
Min(a, b) == IF a <= b THEN a ELSE b

\* str.lower() on the characters the model uses
Lower(c) == CASE c = "B" -> "b" [] c = "T" -> "t" [] OTHER -> c

str_lower(s) == [i \in 1..Len(s) |-> Lower(s[i])]

\* str.startswith('.')
startswith_dot(name) == Len(name) >= 1 /\ name[1] = "."

\* str.endswith(tail)
endswith(name, tail) ==
    /\ Len(tail) <= Len(name)
    /\ SubSeq(name, Len(name) - Len(tail) + 1, Len(name)) = tail

\* str.rfind('.') as a 1-based index, 0 when absent
rfind_dot(name) ==
    LET ds == {i \in 1..Len(name) : name[i] = "."}
    IN IF ds = {} THEN 0 ELSE CHOOSE i \in ds : \A j \in ds : j <= i

\* PurePath.suffix: the text from the last dot, unless the dot leads or ends the name
path_suffix(name) ==
    LET i == rfind_dot(name)
    IN IF 1 < i /\ i < Len(name) THEN SubSeq(name, i, Len(name)) ELSE <<>>

\* PurePath.name / PurePath.parent
path_name(p) == p[Len(p)]
path_parent(p) == SubSeq(p, 1, Len(p) - 1)

IsPrefix(b, p) == Len(b) <= Len(p) /\ SubSeq(p, 1, Len(b)) = b

\* utils.get_relative_path: relative_to(base), the path itself outside base
get_relative_path(p, base) ==
    IF IsPrefix(base, p) THEN SubSeq(p, Len(base) + 1, Len(p)) ELSE p

\* PurePath.match for a one-component pattern "*<tail>": the last component
\* must end with tail
path_match(p, tail) == endswith(path_name(p), tail)

\* ------------------------------------------------------------ file system
root_path == << <<"r">> >>

NameA == <<"a", ".", "t">>
NameH == <<".", "h">>
NameL == <<"l", ".", "t">>
NameD == <<"d">>
NameG == <<".", "g">>
NameB == <<"B", ".", "T">>
NameE == <<"e">>
NameN == <<"n">>
NameC == <<"c", ".", "t">>

\* The candidate tree in the order rglob("*") walks it: the children of the
\* root, then the children of each subdirectory.
Tree == <<
    [path |-> root_path \o <<NameA>>, kind |-> "file"],
    [path |-> root_path \o <<NameH>>, kind |-> "file"],
    [path |-> root_path \o <<NameL>>, kind |-> "link"],
    [path |-> root_path \o <<NameD>>, kind |-> "dir"],
    [path |-> root_path \o <<NameG>>, kind |-> "dir"],
    [path |-> root_path \o <<NameD, NameB>>, kind |-> "file"],
    [path |-> root_path \o <<NameD, NameE>>, kind |-> "dir"],
    [path |-> root_path \o <<NameD, NameE, NameN>>, kind |-> "file"],
    [path |-> root_path \o <<NameG, NameC>>, kind |-> "file"]
>>

\* Path.is_file() follows symbolic links; Path.is_symlink()
is_file(e) == e.kind \in {"file", "link"}
is_symlink(e) == e.kind = "link"

RECURSIVE SelectIdx(_, _, _)
SelectIdx(s, keep, i) ==
    IF i > Len(s) THEN <<>>
    ELSE (IF i \in keep THEN <<s[i]>> ELSE <<>>) \o SelectIdx(s, keep, i + 1)

FileIdx == {i \in 1..Len(Tree) : Tree[i].kind # "dir"}
DirIdx == {i \in 1..Len(Tree) : Tree[i].kind = "dir"}

\* ------------------------------------------------------------ FileScanner
PatternT == <<".", "t">>     \* the ignore glob "*.t"

OptionSet == [include_hidden : BOOLEAN, follow_links : BOOLEAN,
              ignore_patterns : {<<>>, <<PatternT>>}]

NoHiddenCheck_should_process_path(p, opts) ==
    ~ \E i \in 1..Len(opts.ignore_patterns) : path_match(p, opts.ignore_patterns[i])

_should_process_path(p, opts) ==
    IF ~opts.include_hidden /\ startswith_dot(path_name(p)) THEN FALSE
    ELSE ~ \E i \in 1..Len(opts.ignore_patterns) :
             path_match(p, opts.ignore_patterns[i])

\* the condition of _scan_files under which an entry is yielded
Accepted(e, opts) ==
    /\ is_file(e)
    /\ (opts.follow_links \/ ~is_symlink(e))
    /\ _should_process_path(e.path, opts)

InitScanner ==
    /\ rootKind \in {"missing", "file", "dir"}
    /\ options \in OptionSet
    /\ \E present \in SUBSET FileIdx :
         /\ Cardinality(present) <= MaxFiles
         /\ entries = IF rootKind = "dir"
                      THEN SelectIdx(Tree, present \cup DirIdx, 1)
                      ELSE <<>>
         /\ (rootKind # "dir" => present = {})
    /\ pc = "new"
    /\ raised = ""
    /\ enumIdx = 1
    /\ file_paths = <<>>
    /\ total_files = 0
    /\ procIdx = 1
    /\ cur = <<>>
    /\ partIdx = 1
    /\ files = <<>>
    /\ directories = <<>>
    /\ processed_dirs = {}
    /\ extension_stats = <<>>
    /\ total_size = 0
    /\ result = <<>>
    /\ testFailed = {}
    /\ statFailed = {}
    /\ interruptPc = ""

IdleScanner ==
    /\ rootKind = "dir"
    /\ options = [include_hidden |-> TRUE, follow_links |-> FALSE,
                  ignore_patterns |-> <<>>]
    /\ entries = <<>>
    /\ pc = "idle"
    /\ raised = ""
    /\ enumIdx = 1
    /\ file_paths = <<>>
    /\ total_files = 0
    /\ procIdx = 1
    /\ cur = <<>>
    /\ partIdx = 1
    /\ files = <<>>
    /\ directories = <<>>
    /\ processed_dirs = {}
    /\ extension_stats = <<>>
    /\ total_size = 0
    /\ result = <<>>
    /\ testFailed = {}
    /\ statFailed = {}
    /\ interruptPc = ""

\* utils.ensure_path, then the is_dir() test of FileScanner.__init__
ConstructorError(kind) ==
    IF kind = "missing" THEN "FileNotFoundError"
    ELSE IF kind # "dir" THEN "InvalidPathError"
    ELSE ""

Construct ==
    /\ pc = "new"
    /\ raised' = ConstructorError(rootKind)
    /\ pc' = IF raised' = "" THEN "ready" ELSE "failed"
    /\ UNCHANGED <<rootKind, options, entries, enumIdx, file_paths, total_files,
                   procIdx, cur, partIdx, files, directories, processed_dirs,
                   extension_stats, total_size, result, testFailed, statFailed,
                   interruptPc>>
    /\ UNCHANGED notScanVars

\* scan() up to and including display_tree(max_depth=2), which only renders
DisplayTree ==
    /\ pc = "ready"
    /\ pc' = "tree"
    /\ UNCHANGED <<rootKind, options, entries, raised, enumIdx, file_paths,
                   total_files, procIdx, cur, partIdx, files, directories,
                   processed_dirs, extension_stats, total_size, result,
                   testFailed, statFailed, interruptPc>>
    /\ UNCHANGED notScanVars

StartEnum ==
    /\ pc = "tree"
    /\ pc' = "enum"
    /\ UNCHANGED <<rootKind, options, entries, raised, enumIdx, file_paths,
                   total_files, procIdx, cur, partIdx, files, directories,
                   processed_dirs, extension_stats, total_size, result,
                   testFailed, statFailed, interruptPc>>
    /\ UNCHANGED notScanVars

\* one iteration of the loop of _scan_files: the entry is tested and yielded,
\* or the test raises and the except clauses of lines 73-76 skip the entry
EnumStep ==
    /\ pc = "enum"
    /\ enumIdx <= Len(entries)
    /\ \E outcome \in {"ok", "PermissionError", "Exception"} :
         LET e == entries[enumIdx] IN
         /\ (outcome # "ok" => is_file(e))
         /\ file_paths' = IF outcome = "ok" /\ Accepted(e, options)
                          THEN Append(file_paths, e.path) ELSE file_paths
         /\ testFailed' = IF outcome = "ok" THEN testFailed
                          ELSE testFailed \cup {e.path}
    /\ enumIdx' = enumIdx + 1
    /\ UNCHANGED <<rootKind, options, entries, pc, raised, total_files, procIdx,
                   cur, partIdx, files, directories, processed_dirs,
                   extension_stats, total_size, result, statFailed, interruptPc>>
    /\ UNCHANGED notScanVars

\* the generator is exhausted, or a KeyboardInterrupt raised inside it is
\* caught at line 77 and ends it: list() returns what was yielded
EnumEnd ==
    /\ pc = "enum"
    /\ \/ enumIdx > Len(entries) /\ UNCHANGED interruptPc
       \/ enumIdx <= Len(entries) /\ interruptPc' = "enum"
    /\ total_files' = Len(file_paths)
    /\ pc' = "loop"
    /\ UNCHANGED <<rootKind, options, entries, raised, enumIdx, file_paths,
                   procIdx, cur, partIdx, files, directories, processed_dirs,
                   extension_stats, total_size, result, testFailed, statFailed>>
    /\ UNCHANGED notScanVars

\* lines 185-194; the two timestamps are left out, nothing reads them
FileInfo(p, size) ==
    [name |-> path_name(p),
     path |-> p,
     relative_path |-> get_relative_path(p, root_path),
     extension |-> str_lower(path_suffix(path_name(p))),
     size_bytes |-> size,
     is_hidden |-> startswith_dot(path_name(p))]

\* lines 182-194: stat() and FileInfo(...); a failure is caught at 223-226 and
\* the loop goes on with the next file
AbortOnError_StatFailure ==
    /\ raised' = "PermissionError"
    /\ pc' = "raised"
    /\ UNCHANGED <<procIdx, cur>>

StatFailure ==
    /\ procIdx' = procIdx + 1
    /\ pc' = "loop"
    /\ UNCHANGED <<raised, cur>>

ProcStat ==
    /\ pc = "loop"
    /\ procIdx <= Len(file_paths)
    /\ \/ /\ \E size \in 0..MaxSize :
               cur' = <<FileInfo(file_paths[procIdx], size)>>
          /\ pc' = "append"
          /\ UNCHANGED <<raised, procIdx, statFailed>>
       \/ /\ StatFailure
          /\ statFailed' = statFailed \cup {file_paths[procIdx]}
    /\ UNCHANGED <<rootKind, options, entries, enumIdx, file_paths, total_files,
                   partIdx, files, directories, processed_dirs, extension_stats,
                   total_size, result, testFailed, interruptPc>>
    /\ UNCHANGED notScanVars

\* line 195
ProcAppend ==
    /\ pc = "append"
    /\ files' = Append(files, cur[1])
    /\ pc' = "ext"
    /\ UNCHANGED <<rootKind, options, entries, raised, enumIdx, file_paths,
                   total_files, procIdx, cur, partIdx, directories,
                   processed_dirs, extension_stats, total_size, result,
                   testFailed, statFailed, interruptPc>>
    /\ UNCHANGED notScanVars

NoExtension == <<"(no extension)">>

ExtKey(file_info) ==
    IF file_info.extension = <<>> THEN NoExtension ELSE file_info.extension

ExtKeys(stats) == {stats[i].ext : i \in 1..Len(stats)}

ExtIndex(stats, k) == CHOOSE i \in 1..Len(stats) : stats[i].ext = k

\* lines 198-202; the dict is kept as a list of [ext, count, size] in
\* insertion order
UpdateExtensionStats(stats, file_info) ==
    LET k == ExtKey(file_info)
        s0 == IF k \in ExtKeys(stats) THEN stats
              ELSE Append(stats, [ext |-> k, count |-> 0, size |-> 0])
        i == ExtIndex(s0, k)
    IN [s0 EXCEPT ![i].count = @ + 1, ![i].size = @ + file_info.size_bytes]

ProcExtStats ==
    /\ pc = "ext"
    /\ extension_stats' = UpdateExtensionStats(extension_stats, cur[1])
    /\ pc' = "total"
    /\ UNCHANGED <<rootKind, options, entries, raised, enumIdx, file_paths,
                   total_files, procIdx, cur, partIdx, files, directories,
                   processed_dirs, total_size, result, testFailed, statFailed,
                   interruptPc>>
    /\ UNCHANGED notScanVars

\* line 204
ProcTotal ==
    /\ pc = "total"
    /\ total_size' = total_size + cur[1].size_bytes
    /\ partIdx' = 1
    /\ pc' = "dirs"
    /\ UNCHANGED <<rootKind, options, entries, raised, enumIdx, file_paths,
                   total_files, procIdx, cur, files, directories,
                   processed_dirs, extension_stats, result, testFailed,
                   statFailed, interruptPc>>
    /\ UNCHANGED notScanVars

\* get_relative_path(dir_path, self.root_path).parts
ParentParts(file_info) == get_relative_path(path_parent(file_info.path), root_path)

NullAtTop_DirectoryInfo(current_path) ==
    [path |-> current_path,
     relative_path |-> get_relative_path(current_path, root_path),
     depth |-> Len(get_relative_path(current_path, root_path)),
     parent_path |-> IF path_parent(current_path) # root_path
                     THEN <<path_parent(current_path)>> ELSE <<>>]

\* lines 213-220
DirectoryInfo(current_path) ==
    [path |-> current_path,
     relative_path |-> get_relative_path(current_path, root_path),
     depth |-> Len(get_relative_path(current_path, root_path)),
     parent_path |-> IF current_path # root_path
                     THEN <<path_parent(current_path)>> ELSE <<>>]

\* one iteration of the loop of lines 209-221
ProcDir ==
    /\ pc = "dirs"
    /\ partIdx <= Len(ParentParts(cur[1]))
    /\ LET current_path == root_path \o SubSeq(ParentParts(cur[1]), 1, partIdx)
       IN IF current_path \notin processed_dirs
          THEN /\ processed_dirs' = processed_dirs \cup {current_path}
               /\ directories' = Append(directories, DirectoryInfo(current_path))
          ELSE UNCHANGED <<processed_dirs, directories>>
    /\ partIdx' = partIdx + 1
    /\ UNCHANGED <<rootKind, options, entries, pc, raised, enumIdx, file_paths,
                   total_files, procIdx, cur, files, extension_stats,
                   total_size, result, testFailed, statFailed, interruptPc>>
    /\ UNCHANGED notScanVars

\* the end of the body of the loop of line 176
ProcNext ==
    /\ pc = "dirs"
    /\ partIdx > Len(ParentParts(cur[1]))
    /\ procIdx' = procIdx + 1
    /\ cur' = <<>>
    /\ pc' = "loop"
    /\ UNCHANGED <<rootKind, options, entries, raised, enumIdx, file_paths,
                   total_files, partIdx, files, directories, processed_dirs,
                   extension_stats, total_size, result, testFailed, statFailed,
                   interruptPc>>
    /\ UNCHANGED notScanVars

\* lines 228-235
NormalResult ==
    [root_path |-> root_path, total_files |-> total_files,
     total_size |-> total_size, files |-> files, directories |-> directories,
     extension_stats |-> extension_stats]

EnumeratedCount_PartialResult ==
    [root_path |-> root_path, total_files |-> total_files,
     total_size |-> total_size, files |-> files, directories |-> directories,
     extension_stats |-> extension_stats]

\* lines 239-246
PartialResult ==
    [root_path |-> root_path, total_files |-> Len(files),
     total_size |-> total_size, files |-> files, directories |-> directories,
     extension_stats |-> extension_stats]

Finish ==
    /\ pc = "loop"
    /\ procIdx > Len(file_paths)
    /\ result' = <<NormalResult>>
    /\ pc' = "done"
    /\ UNCHANGED <<rootKind, options, entries, raised, enumIdx, file_paths,
                   total_files, procIdx, cur, partIdx, files, directories,
                   processed_dirs, extension_stats, total_size, testFailed,
                   statFailed, interruptPc>>
    /\ UNCHANGED notScanVars

\* a KeyboardInterrupt raised in the frame of scan() between two statements,
\* caught at line 237
InterruptPoints == {"tree", "loop", "append", "ext", "total", "dirs"}

Interrupt ==
    /\ pc \in InterruptPoints
    /\ interruptPc' = pc
    /\ result' = <<PartialResult>>
    /\ pc' = "interrupted"
    /\ UNCHANGED <<rootKind, options, entries, raised, enumIdx, file_paths,
                   total_files, procIdx, cur, partIdx, files, directories,
                   processed_dirs, extension_stats, total_size, testFailed,
                   statFailed>>
    /\ UNCHANGED notScanVars

NextScanner ==
    \/ Construct
    \/ DisplayTree
    \/ StartEnum
    \/ EnumStep
    \/ EnumEnd
    \/ ProcStat
    \/ ProcAppend
    \/ ProcExtStats
    \/ ProcTotal
    \/ ProcDir
    \/ ProcNext
    \/ Finish
    \/ Interrupt

\* ---------------------------------------------------------- CatalogManager
DirCounts == {0, 1, batch_size, batch_size + 1}

InitCatalogTables ==
    /\ cat_pc = "idle"
    /\ cat_raised = ""
    /\ cat_input = [nfiles |-> 0, ndirs |-> 0]
    /\ catalogs = <<>>
    /\ dir_tx = <<>>
    /\ file_tx = <<>>
    /\ cat_i = 0

IdleCatalog ==
    /\ cat_pc = "off"
    /\ cat_raised = ""
    /\ cat_input = [nfiles |-> 0, ndirs |-> 0]
    /\ catalogs = <<>>
    /\ dir_tx = <<>>
    /\ file_tx = <<>>
    /\ cat_i = 0

\* AUTOINCREMENT primary key: one more than the largest id in the table
NextId(rows) ==
    IF rows = <<>> THEN 1
    ELSE 1 + (CHOOSE m \in {rows[i].id : i \in 1..Len(rows)} :
                \A i \in 1..Len(rows) : rows[i].id <= m)

\* DatabaseManager.execute_transaction on the queries [lo, hi) of a list:
\* failAt is the index of the query that raises, -1 when none does. A
\* transaction is kept in the table as the range of list indices it inserted.
KeepPartial_execute_transaction(table, tx, failAt) ==
    IF failAt = -1 THEN [table |-> Append(table, tx), raised |-> ""]
    ELSE [table |-> Append(table, [tx EXCEPT !.hi = failAt]),
          raised |-> "Exception"]

execute_transaction(table, tx, failAt) ==
    IF failAt = -1 THEN [table |-> Append(table, tx), raised |-> ""]
    ELSE [table |-> table, raised |-> "Exception"]

FailPoints(tx) == {-1, tx.lo, tx.hi - 1}

\* lines 119-127: INSERT INTO catalogs ... 'active'; no statement of
\* create_catalog touches the rows the table already holds
InsertCatalog(rows, path, n) ==
    Append(rows, [id |-> NextId(rows), root_path |-> path,
                  total_files |-> n, status |-> "active"])

\* create_catalog up to the INSERT of lines 119-127, for a scan result drawn
\* from the given root paths, file counts and directory counts
CatInsertOf(paths, counts, dcounts) ==
    /\ cat_pc = "idle"
    /\ \E n \in counts, m \in dcounts :
         cat_input' = [nfiles |-> n, ndirs |-> m]
    /\ \/ /\ \E path \in paths :
               catalogs' = InsertCatalog(catalogs, path, cat_input'.nfiles)
          /\ cat_pc' = "dirs"
          /\ UNCHANGED cat_raised
       \/ /\ cat_raised' = "Exception"
          /\ cat_pc' = "failed_insert"
          /\ UNCHANGED catalogs
    /\ UNCHANGED <<dir_tx, file_tx, cat_i>>
    /\ UNCHANGED notCatVars

CatInsert == CatInsertOf({"/a"}, 0..MaxCatFiles, DirCounts)

\* lines 129-149: every directory row in one execute_transaction call
DirBatch(m) == [lo |-> 0, hi |-> m]

CatDirs ==
    /\ cat_pc = "dirs"
    /\ IF cat_input.ndirs = 0
       THEN /\ cat_pc' = "files"
            /\ UNCHANGED <<dir_tx, cat_raised>>
       ELSE \E failAt \in FailPoints(DirBatch(cat_input.ndirs)) :
              LET r == execute_transaction(dir_tx, DirBatch(cat_input.ndirs), failAt)
              IN /\ dir_tx' = r.table
                 /\ cat_raised' = r.raised
                 /\ cat_pc' = IF r.raised = "" THEN "files" ELSE "failed_dirs"
    /\ cat_i' = 0
    /\ UNCHANGED <<cat_input, catalogs, file_tx>>
    /\ UNCHANGED notCatVars

\* line 179: batch = file_queries[i:i + batch_size]
Rest_FileBatch(i, n) == [lo |-> i, hi |-> n]

FileBatch(i, n) == [lo |-> i, hi |-> Min(i + batch_size, n)]

\* one iteration of the loop of lines 178-180
CatFileBatch ==
    /\ cat_pc = "files"
    /\ cat_i < cat_input.nfiles
    /\ \E failAt \in FailPoints(FileBatch(cat_i, cat_input.nfiles)) :
         LET r == execute_transaction(file_tx, FileBatch(cat_i, cat_input.nfiles),
                                      failAt)
         IN /\ file_tx' = r.table
            /\ cat_raised' = r.raised
            /\ cat_pc' = IF r.raised = "" THEN "files" ELSE "failed_files"
            /\ cat_i' = IF r.raised = "" THEN cat_i + batch_size ELSE cat_i
    /\ UNCHANGED <<cat_input, catalogs, dir_tx>>
    /\ UNCHANGED notCatVars

\* line 182
CatReturn ==
    /\ cat_pc = "files"
    /\ cat_i >= cat_input.nfiles
    /\ cat_pc' = "returned"
    /\ UNCHANGED <<cat_raised, cat_input, catalogs, dir_tx, file_tx, cat_i>>
    /\ UNCHANGED notCatVars

NextCatalogManager ==
    \/ CatInsert
    \/ CatDirs
    \/ CatFileBatch
    \/ CatReturn

\* ------------------------------------------------------------ StatsManager
RootPaths == {"/a", "/b"}

ExtSets == {<<>>, <<".t">>, <<".t", "(no extension)">>}

InitStatsTables ==
    /\ scan_results = <<>>
    /\ file_types = <<>>
    /\ stats_calls = 0
    /\ stats_last = [path |-> "", outcome |-> [p \in RootPaths |-> "none"]]

IdleStats ==
    /\ scan_results = <<>>
    /\ file_types = <<>>
    /\ stats_calls = -1
    /\ stats_last = [path |-> "", outcome |-> [p \in RootPaths |-> "none"]]

\* lines 75-78: UPDATE scan_results SET status = 'archived' WHERE root_path = ?
\* (_update_schema has added the status column, so the OperationalError
\* handler of lines 79-81 is never entered)
ArchiveAll_ArchivePath(rows, path) ==
    [i \in 1..Len(rows) |-> [rows[i] EXCEPT !.status = "archived"]]

ArchivePath(rows, path) ==
    [i \in 1..Len(rows) |->
        IF rows[i].root_path = path THEN [rows[i] EXCEPT !.status = "archived"]
        ELSE rows[i]]

\* lines 84-91: INSERT INTO scan_results ... 'completed'
InsertScan(rows, path) ==
    Append(rows, [id |-> NextId(rows), root_path |-> path, status |-> "completed"])

\* lines 94-103: one INSERT INTO file_types per extension
ExtRows(scan_id, exts) ==
    [i \in 1..Len(exts) |-> [scan_id |-> scan_id, extension |-> exts[i]]]

\* StatsManager.save_scan_results: the UPDATE, the INSERT and the extension
\* transaction each commit on their own connection; the call raises when the
\* INSERT or the extension transaction fails
save_scan_results(path, exts, outcome) ==
    LET archived == ArchivePath(scan_results, path)
        inserted == InsertScan(archived, path)
        scan_id == inserted[Len(inserted)].id
    IN /\ scan_results' = IF outcome = "insert_fails" THEN archived ELSE inserted
       /\ file_types' = IF outcome = "completed"
                        THEN file_types \o ExtRows(scan_id, exts)
                        ELSE file_types
       /\ stats_last' = [path |-> path,
                         outcome |-> [stats_last.outcome EXCEPT ![path] = outcome]]

SaveScanResults ==
    /\ stats_calls >= 0
    /\ stats_calls < MaxScans
    /\ \E path \in RootPaths, exts \in ExtSets,
          outcome \in {"completed", "insert_fails", "ext_fails"} :
         /\ (outcome = "ext_fails" => exts # <<>>)
         /\ save_scan_results(path, exts, outcome)
    /\ stats_calls' = stats_calls + 1
    /\ UNCHANGED notStatsVars

NextStatsManager ==
    \/ SaveScanResults

\* ------------------------------------------- create_catalog, called again
\* create_catalog (catalog.py lines 110-182) called repeatedly on one database
\* file, with small scan results of either root path
CatInsertSmall == CatInsertOf(RootPaths, 0..MaxReFiles, {0, 1})

\* line 110: the previous call has returned or raised, the next one begins
CatAgain ==
    /\ cat_pc \in {"returned", "failed_insert", "failed_dirs", "failed_files"}
    /\ Len(catalogs) < MaxCatalogs
    /\ cat_pc' = "idle"
    /\ cat_raised' = ""
    /\ cat_input' = [nfiles |-> 0, ndirs |-> 0]
    /\ cat_i' = 0
    /\ UNCHANGED <<catalogs, dir_tx, file_tx>>
    /\ UNCHANGED notCatVars

NextRecatalog ==
    \/ CatInsertSmall
    \/ CatDirs
    \/ CatFileBatch
    \/ CatReturn
    \/ CatAgain

\* ------------------------------------------ DatabaseService: init_db
\* A database is [schema, indexes, view]: the columns of each table ({} for a
\* table that does not exist), the index names, and the rows of table version.
NoTables == [version |-> {}, scans |-> {}, files |-> {}]

\* column lists of the CREATE TABLE statements, lines 240-245 and 269-290
CreatedColumns ==
    [version |-> {"id", "version"},
     scans |-> {"id", "scan_date", "root_path", "total_files", "total_size"},
     files |-> {"id", "scan_id", "name", "path", "size", "created",
                "modified", "extension"}]

\* table and columns of the CREATE INDEX statements, lines 300-307 and 316-319
IndexTarget ==
    [idx_scan_date |-> [table |-> "scans", columns |-> {"scan_date"}],
     idx_tags |-> [table |-> "files", columns |-> {"tags"}],
     idx_category |-> [table |-> "files",
                       columns |-> {"category", "subcategory"}]]

CreateTable(t) == [op |-> "create_table", table |-> t, name |-> "", n |-> 0]
AddColumn(t, c) == [op |-> "add_column", table |-> t, name |-> c, n |-> 0]
CreateIndex(i) ==
    [op |-> "create_index", table |-> IndexTarget[i].table, name |-> i, n |-> 0]
SetFrom(k) == [op |-> "set_from", table |-> "", name |-> "", n |-> k]
DeleteVersion == [op |-> "delete_version", table |-> "version", name |-> "", n |-> 0]
InsertVersion(v) ==
    [op |-> "insert_version", table |-> "version", name |-> "", n |-> v]

\* the body of the block "if from_version == k", lines 267-325
Statements(k) ==
    CASE k = 0 -> <<CreateTable("scans"), CreateTable("files"), SetFrom(1)>>
      [] k = 1 -> <<AddColumn("files", "tags"), AddColumn("files", "category"),
                    AddColumn("files", "patterns"),
                    CreateIndex("idx_scan_date"), CreateIndex("idx_tags"),
                    SetFrom(2)>>
      [] k = 2 -> <<AddColumn("files", "subcategory"),
                    AddColumn("files", "parsed_info"),
                    CreateIndex("idx_category"), SetFrom(3)>>
      [] k = 3 -> <<AddColumn("files", "directory_info"), SetFrom(4)>>
      [] OTHER -> <<>>

\* lines 327-332
VersionUpdate == <<DeleteVersion, InsertVersion(CURRENT_VERSION)>>

\* a chain that runs the one block of the stored version and nothing after it
ElifChain_migrate_database(from_version) ==
    Statements(from_version) \o VersionUpdate

\* lines 267-332: the statements _migrate_database goes through when nothing
\* raises; each block is entered when from_version, as the blocks before it
\* left it, equals the block's number
_migrate_database(from_version) ==
    LET v1 == IF from_version = 0 THEN 1 ELSE from_version
        v2 == IF v1 = 1 THEN 2 ELSE v1
        v3 == IF v2 = 2 THEN 3 ELSE v2
    IN (IF from_version = 0 THEN Statements(0) ELSE <<>>)
       \o (IF v1 = 1 THEN Statements(1) ELSE <<>>)
       \o (IF v2 = 2 THEN Statements(2) ELSE <<>>)
       \o (IF v3 = 3 THEN Statements(3) ELSE <<>>)
       \o VersionUpdate

\* What SQLite does with one statement. DDL runs outside a transaction and
\* is durable at once; the DELETE and INSERT on table version change only the
\* connection's view until the connection commits.
Exec(stmt, db) ==
    LET ok(d) == [db |-> d, raised |-> ""]
        err(e) == [db |-> db, raised |-> e]
        t == stmt.table
    IN CASE stmt.op = "create_table" ->
              IF db.schema[t] = {}
              THEN ok([db EXCEPT !.schema[t] = CreatedColumns[t]])
              ELSE ok(db)
         [] stmt.op = "add_column" ->
              IF db.schema[t] = {} THEN err("no such table")
              ELSE IF stmt.name \in db.schema[t]
                   THEN err("duplicate column name")
                   ELSE ok([db EXCEPT !.schema[t] = @ \cup {stmt.name}])
         [] stmt.op = "create_index" ->
              IF stmt.name \in db.indexes THEN ok(db)
              ELSE IF db.schema[t] = {} THEN err("no such table")
              ELSE IF ~(IndexTarget[stmt.name].columns \subseteq db.schema[t])
                   THEN err("no such column")
                   ELSE ok([db EXCEPT !.indexes = @ \cup {stmt.name}])
         [] stmt.op = "delete_version" -> ok([db EXCEPT !.view = <<>>])
         [] stmt.op = "insert_version" ->
              IF db.view # <<>> THEN err("UNIQUE constraint failed")
              ELSE ok([db EXCEPT !.view = <<stmt.n>>])
         [] OTHER -> ok(db)

RECURSIVE Run(_, _)
Run(stmts, db) ==
    IF stmts = <<>> THEN db ELSE Run(Tail(stmts), Exec(Head(stmts), db).db)

RECURSIVE StepsBelow(_)
StepsBelow(v) == IF v = 0 THEN <<>> ELSE StepsBelow(v - 1) \o Statements(v - 1)

\* the database file as the release with schema version v left it: no file
\* for v = 0, otherwise the steps below v applied and the version row written
ReleaseDb(v) ==
    IF v = 0 THEN [schema |-> NoTables, indexes |-> {}, view |-> <<>>]
    ELSE Run(<<CreateTable("version")>> \o StepsBelow(v) \o <<InsertVersion(v)>>,
             [schema |-> NoTables, indexes |-> {}, view |-> <<>>])

InitDatabase ==
    /\ \E v \in 0..CURRENT_VERSION :
         /\ db_schema = ReleaseDb(v).schema
         /\ db_indexes = ReleaseDb(v).indexes
         /\ db_version = ReleaseDb(v).view
    /\ mig_pc = "down"
    /\ mig_todo = <<>>
    /\ mig_view = db_version
    /\ mig_start = 0
    /\ mig_applied = <<>>
    /\ mig_raised = ""
    /\ mig_runs = 0

IdleMigrate ==
    /\ db_schema = NoTables
    /\ db_indexes = {}
    /\ db_version = <<>>
    /\ mig_pc = "off"
    /\ mig_todo = <<>>
    /\ mig_view = <<>>
    /\ mig_start = 0
    /\ mig_applied = <<>>
    /\ mig_raised = ""
    /\ mig_runs = 0

\* lines 234-254: a DatabaseService is constructed on the file; init_db opens
\* it, creates table version if it is missing and reads the stored version
InitDb ==
    /\ mig_pc \in {"down", "done", "failed"}
    /\ mig_runs < MaxStarts
    /\ mig_runs' = mig_runs + 1
    /\ mig_applied' = <<>>
    /\ mig_view' = db_version
    /\ UNCHANGED <<db_indexes, db_version>>
    /\ \/ /\ mig_pc' = "failed"
          /\ mig_raised' = "OperationalError"
          /\ mig_todo' = <<>>
          /\ UNCHANGED <<db_schema, mig_start>>
       \/ LET current_version == IF db_version = <<>> THEN 0 ELSE db_version[1]
          IN /\ db_schema' = Exec(CreateTable("version"),
                                  [schema |-> db_schema, indexes |-> db_indexes,
                                   view |-> db_version]).db.schema
             /\ mig_start' = current_version
             /\ mig_raised' = ""
             /\ IF current_version < CURRENT_VERSION
                THEN /\ mig_todo' = _migrate_database(current_version)
                     /\ mig_pc' = "migrating"
                ELSE /\ mig_todo' = <<>>
                     /\ mig_pc' = "done"
    /\ UNCHANGED notMigVars

\* one statement of _migrate_database; an exception leaves through lines
\* 337-340 and 259-262, and the connection rolls its open transaction back
MigStatement ==
    /\ mig_pc = "migrating"
    /\ mig_todo # <<>>
    /\ \E fails \in BOOLEAN :
         LET stmt == Head(mig_todo)
             r == IF fails
                  THEN [db |-> [schema |-> db_schema, indexes |-> db_indexes,
                                view |-> mig_view],
                        raised |-> "OperationalError"]
                  ELSE Exec(stmt, [schema |-> db_schema, indexes |-> db_indexes,
                                   view |-> mig_view])
         IN /\ db_schema' = r.db.schema
            /\ db_indexes' = r.db.indexes
            /\ mig_raised' = r.raised
            /\ IF r.raised = ""
               THEN /\ mig_view' = r.db.view
                    /\ mig_todo' = Tail(mig_todo)
                    /\ mig_applied' = IF stmt.op = "set_from"
                                      THEN Append(mig_applied, stmt.n - 1)
                                      ELSE mig_applied
                    /\ mig_pc' = "migrating"
               ELSE /\ mig_view' = db_version
                    /\ mig_todo' = <<>>
                    /\ mig_applied' = mig_applied
                    /\ mig_pc' = "failed"
    /\ UNCHANGED <<db_version, mig_start, mig_runs>>
    /\ UNCHANGED notMigVars

\* the with block of line 235 ends: the connection commits
MigCommit ==
    /\ mig_pc = "migrating"
    /\ mig_todo = <<>>
    /\ \/ /\ db_version' = mig_view
          /\ mig_pc' = "done"
          /\ UNCHANGED <<mig_view, mig_raised>>
       \/ /\ mig_view' = db_version
          /\ mig_pc' = "failed"
          /\ mig_raised' = "OperationalError"
          /\ UNCHANGED db_version
    /\ UNCHANGED <<db_schema, db_indexes, mig_todo, mig_start, mig_applied,
                   mig_runs>>
    /\ UNCHANGED notMigVars

NextMigrate ==
    \/ InitDb
    \/ MigStatement
    \/ MigCommit

\* ------------------------------ DatabaseService: scans, files, entries
\* file counts of the scan results given to process_scan_result
SvcFileCounts == {0, 1, BATCH_SIZE + 1}

\* the database file once init_db has brought it to CURRENT_VERSION
MigratedDatabase ==
    /\ db_schema = ReleaseDb(CURRENT_VERSION).schema
    /\ db_indexes = ReleaseDb(CURRENT_VERSION).indexes
    /\ db_version = <<CURRENT_VERSION>>
    /\ mig_pc = "done"
    /\ mig_todo = <<>>
    /\ mig_view = db_version
    /\ mig_start = CURRENT_VERSION
    /\ mig_applied = <<>>
    /\ mig_raised = ""
    /\ mig_runs = 1

\* lines 78-97 on a new database file: nothing to clean up
InitServiceData ==
    /\ svc_pc = "up"
    /\ svc_now = 0
    /\ svc_scans = <<>>
    /\ svc_files = <<>>
    /\ svc_tx = [scans |-> <<>>, files |-> <<>>]
    /\ svc_input = [nfiles |-> 0]
    /\ svc_i = 0
    /\ _entries = <<>>
    /\ _current_scan = <<>>
    /\ svc_notified = <<>>
    /\ svc_raised = ""
    /\ svc_calls = 0

IdleService ==
    /\ svc_pc = "off"
    /\ svc_now = 0
    /\ svc_scans = <<>>
    /\ svc_files = <<>>
    /\ svc_tx = [scans |-> <<>>, files |-> <<>>]
    /\ svc_input = [nfiles |-> 0]
    /\ svc_i = 0
    /\ _entries = <<>>
    /\ _current_scan = <<>>
    /\ svc_notified = <<>>
    /\ svc_raised = ""
    /\ svc_calls = 0

\* time passes between calls
Tick ==
    /\ svc_pc \in {"down", "up"}
    /\ svc_calls < MaxSvcCalls
    /\ svc_calls' = svc_calls + 1
    /\ \E d \in {1, MAX_SCAN_AGE_DAYS, MAX_SCAN_AGE_DAYS + 1} :
         svc_now' = svc_now + d
    /\ UNCHANGED <<svc_pc, svc_scans, svc_files, svc_tx, svc_input, svc_i,
                   _entries, _current_scan, svc_notified, svc_raised>>
    /\ UNCHANGED notSvcVars

\* lines 345-362: DELETE FROM scans WHERE scan_date < cutoff. The connection
\* of line 349 never runs PRAGMA foreign_keys = ON, so SQLite leaves the
\* files rows of the deleted scans alone.
cleanup_old_scans(rows, now) ==
    LET cutoff_date == now - MAX_SCAN_AGE_DAYS
        keep(r) == ~(r.scan_date < cutoff_date)
    IN SelectSeq(rows, keep)

\* lines 78-97: the process starts and constructs the service on the
\* migrated file: init_db finds CURRENT_VERSION and changes nothing, then
\* cleanup_old_scans runs; an exception inside it is logged and swallowed
\* (lines 369-371)
ServiceStart ==
    /\ svc_pc = "down"
    /\ db_version = <<CURRENT_VERSION>>
    /\ svc_calls < MaxSvcCalls
    /\ svc_calls' = svc_calls + 1
    /\ svc_pc' = "up"
    /\ \/ svc_scans' = cleanup_old_scans(svc_scans, svc_now)
       \/ UNCHANGED svc_scans
    /\ _entries' = <<>>
    /\ _current_scan' = <<>>
    /\ svc_notified' = <<>>
    /\ svc_raised' = ""
    /\ UNCHANGED <<svc_now, svc_files, svc_tx, svc_input, svc_i>>
    /\ UNCHANGED notSvcVars

\* the process exits
ServiceStop ==
    /\ svc_pc = "up"
    /\ svc_pc' = "down"
    /\ UNCHANGED <<svc_now, svc_scans, svc_files, svc_tx, svc_input, svc_i,
                   _entries, _current_scan, svc_notified, svc_raised,
                   svc_calls>>
    /\ UNCHANGED notSvcVars

Notify(log, call, batch) == Append(log, [call |-> call, batch |-> batch])

NoBatch == [scan_id |-> 0, lo |-> 0, hi |-> 0]

\* lines 112-117
Clear ==
    /\ svc_pc = "up"
    /\ svc_calls < MaxSvcCalls
    /\ svc_calls' = svc_calls + 1
    /\ _entries' = <<>>
    /\ _current_scan' = <<>>
    /\ svc_notified' = Notify(svc_notified, "on_database_cleared", NoBatch)
    /\ UNCHANGED <<svc_pc, svc_now, svc_scans, svc_files, svc_tx, svc_input,
                   svc_i, svc_raised>>
    /\ UNCHANGED notSvcVars

\* lines 380-416: clear(), then the INSERT INTO scans inside the connection
\* of line 390; the row is not committed until the with block ends
ProcessBegin ==
    /\ svc_pc = "up"
    /\ svc_calls < MaxSvcCalls
    /\ svc_calls' = svc_calls + 1
    /\ \E n \in SvcFileCounts : svc_input' = [nfiles |-> n]
    /\ _entries' = <<>>
    /\ svc_i' = 0
    /\ \/ /\ svc_raised' = "Exception"
          /\ _current_scan' = <<>>
          /\ svc_notified' = Notify(svc_notified, "on_database_cleared", NoBatch)
          /\ UNCHANGED <<svc_pc, svc_tx>>
       \/ LET scan_id == NextId(svc_scans)
              row == [id |-> scan_id, scan_date |-> svc_now,
                      total_files |-> svc_input'.nfiles]
          IN /\ svc_tx' = [scans |-> <<row>>, files |-> <<>>]
             /\ _current_scan' = <<[timestamp |-> svc_now,
                                    total_files |-> svc_input'.nfiles]>>
             /\ svc_notified' =
                  Notify(Notify(svc_notified, "on_database_cleared", NoBatch),
                         "set_scan_time", NoBatch)
             /\ svc_raised' = ""
             /\ svc_pc' = "saving"
    /\ UNCHANGED <<svc_now, svc_scans, svc_files>>
    /\ UNCHANGED notSvcVars

\* lines 420-441: the files of one batch are analysed and appended to
\* _entries, then _save_batch inserts them and the observers are told. An
\* exception (lines 443-446) leaves through the with block, which rolls the
\* connection back.
ProcessBatch ==
    /\ svc_pc = "saving"
    /\ svc_i < svc_input.nfiles
    /\ LET scan_id == svc_tx.scans[1].id
           hi == Min(svc_i + BATCH_SIZE, svc_input.nfiles)
           batch == [scan_id |-> scan_id, lo |-> svc_i, hi |-> hi]
       IN \/ /\ svc_tx' = [svc_tx EXCEPT !.files = Append(@, batch)]
             /\ _entries' = Append(_entries, batch)
             /\ svc_notified' = Notify(svc_notified, "on_entries_added", batch)
             /\ svc_i' = hi
             /\ UNCHANGED <<svc_pc, svc_raised>>
          \/ \E reached \in {svc_i, hi} :
               /\ svc_tx' = [scans |-> <<>>, files |-> <<>>]
               /\ _entries' = IF reached = svc_i THEN _entries
                              ELSE Append(_entries, batch)
               /\ svc_raised' = "Exception"
               /\ svc_pc' = "up"
               /\ UNCHANGED <<svc_notified, svc_i>>
    /\ UNCHANGED <<svc_now, svc_scans, svc_files, svc_input, _current_scan,
                   svc_calls>>
    /\ UNCHANGED notSvcVars

\* the with block of line 390 ends normally: the connection commits
ProcessCommit ==
    /\ svc_pc = "saving"
    /\ svc_i >= svc_input.nfiles
    /\ svc_pc' = "up"
    /\ svc_tx' = [scans |-> <<>>, files |-> <<>>]
    /\ \/ /\ svc_scans' = svc_scans \o svc_tx.scans
          /\ svc_files' = svc_files \o svc_tx.files
          /\ UNCHANGED svc_raised
       \/ /\ svc_raised' = "Exception"
          /\ UNCHANGED <<svc_scans, svc_files>>
    /\ UNCHANGED <<svc_now, svc_input, svc_i, _entries, _current_scan,
                   svc_notified, svc_calls>>
    /\ UNCHANGED notSvcVars

\* number of files rows whose scan_id is id
RECURSIVE RowCount(_, _)
RowCount(batches, id) ==
    IF batches = <<>> THEN 0
    ELSE (IF Head(batches).scan_id = id
          THEN Head(batches).hi - Head(batches).lo ELSE 0)
         + RowCount(Tail(batches), id)

\* lines 216-220: the loaded entries, BATCH_SIZE at a time
RECURSIVE LoadBatches(_, _, _)
LoadBatches(id, i, m) ==
    IF i >= m THEN <<>>
    ELSE <<[scan_id |-> id, lo |-> i, hi |-> Min(i + BATCH_SIZE, m)]>>
         \o LoadBatches(id, i + BATCH_SIZE, m)

RECURSIVE NotifyAll(_, _)
NotifyAll(log, batches) ==
    IF batches = <<>> THEN log
    ELSE NotifyAll(Notify(log, "on_entries_added", Head(batches)),
                   Tail(batches))

\* lines 153-230: the row ORDER BY scan_date DESC LIMIT 1 (any of the rows
\* of the latest date), its files extended onto _entries; an exception is
\* logged and swallowed (lines 227-229)
LoadLastScan ==
    /\ svc_pc = "up"
    /\ svc_calls < MaxSvcCalls
    /\ svc_calls' = svc_calls + 1
    /\ \/ /\ svc_scans = <<>>
          /\ UNCHANGED <<_entries, _current_scan, svc_notified>>
       \/ \E k \in 1..Len(svc_scans) :
            /\ \A j \in 1..Len(svc_scans) :
                 svc_scans[j].scan_date <= svc_scans[k].scan_date
            /\ LET row == svc_scans[k]
                   loaded == LoadBatches(row.id, 0, RowCount(svc_files, row.id))
               IN /\ _current_scan' = <<[timestamp |-> row.scan_date,
                                         total_files |-> row.total_files]>>
                  /\ \/ /\ _entries' = _entries \o loaded
                        /\ svc_notified' =
                             NotifyAll(Notify(svc_notified, "set_scan_time",
                                              NoBatch), loaded)
                     \/ /\ UNCHANGED _entries
                        /\ svc_notified' = Notify(svc_notified, "set_scan_time",
                                                  NoBatch)
       \/ UNCHANGED <<_entries, _current_scan, svc_notified>>
    /\ UNCHANGED <<svc_pc, svc_now, svc_scans, svc_files, svc_tx, svc_input,
                   svc_i, svc_raised>>
    /\ UNCHANGED notSvcVars

NextService ==
    \/ Tick
    \/ ServiceStart
    \/ ServiceStop
    \/ Clear
    \/ ProcessBegin
    \/ ProcessBatch
    \/ ProcessCommit
    \/ LoadLastScan

\* ------------------------------------------------ FileNameParser
UpperLetters == <<"A", "B", "C", "D", "E", "F", "G", "H", "I", "J", "K", "L", "M", "N", "O", "P", "Q", "R", "S", "T", "U", "V", "W", "X", "Y", "Z">>
LowerLetters == <<"a", "b", "c", "d", "e", "f", "g", "h", "i", "j", "k", "l", "m", "n", "o", "p", "q", "r", "s", "t", "u", "v", "w", "x", "y", "z">>
DigitSeq == <<"0", "1", "2", "3", "4", "5", "6", "7", "8", "9">>
DigitChars == {DigitSeq[k] : k \in 1..10}

\* str.upper() on ASCII text
str_upper(s) ==
    LET ToUpper(c) ==
            IF \E k \in 1..26 : LowerLetters[k] = c
            THEN UpperLetters[CHOOSE k \in 1..26 : LowerLetters[k] = c]
            ELSE c
    IN [i \in 1..Len(s) |-> ToUpper(s[i])]

\* A pattern without groups is a sequence of items: a character class and
\* the least and most repetitions of it. re matches greedily and backtracks.
Cls(set, lo, hi) == [chars |-> set, min |-> lo, max |-> hi]
Lit(c) == Cls({c}, 1, 1)
UpperSet == {UpperLetters[k] : k \in 1..26}

\* characters of set at s[i], s[i+1], ..., at most cap of them
RECURSIVE RunLen(_, _, _, _)
RunLen(s, i, set, cap) ==
    IF cap = 0 \/ i > Len(s) THEN 0
    ELSE IF s[i] \in set THEN 1 + RunLen(s, i + 1, set, cap - 1) ELSE 0

\* the index after the match of items that starts at s[i], 0 when there is
\* none; the repetitions of an item are tried from the most down to the least
RECURSIVE MatchFrom(_, _, _)
RECURSIVE TryReps(_, _, _, _)
MatchFrom(s, i, items) ==
    IF items = <<>> THEN i
    ELSE TryReps(s, i, items,
                 RunLen(s, i, Head(items).chars, Head(items).max))

TryReps(s, i, items, k) ==
    IF k < Head(items).min THEN 0
    ELSE LET r == MatchFrom(s, i + k, Tail(items))
         IN IF r # 0 THEN r ELSE TryReps(s, i, items, k - 1)

\* a match is [start, end): start is match.start() + 1
Least(set) == CHOOSE i \in set : \A j \in set : i <= j

MatchAt(i, e) == <<[start |-> i, end |-> e]>>

\* re.search for a pattern of items: the leftmost match, <<>> when none
re_search(items, s) ==
    LET starts == {i \in 1..Len(s) + 1 : MatchFrom(s, i, items) # 0}
    IN IF starts = {} THEN <<>>
       ELSE MatchAt(Least(starts), MatchFrom(s, Least(starts), items))

group(s, m) == SubSeq(s, m.start, m.end - 1)

\* lines 88-93: PROJECT_PATTERNS with their confidence, in hundredths
PROJECT_PATTERNS ==
    << [items |-> <<Cls(UpperSet, 2, 4), Lit("-"), Cls(DigitChars, 3, 6)>>,
        confidence |-> 90],
       [items |-> <<Cls(DigitChars, 4, 6), Lit("-"), Cls(UpperSet, 2, 4)>>,
        confidence |-> 90],
       [items |-> <<Lit("P"), Lit("R"), Lit("J"), Lit("-"),
                    Cls(DigitChars, 4, 6)>>,
        confidence |-> 80],
       [items |-> <<Lit("P"), Cls(DigitChars, 5, 8)>>, confidence |-> 70] >>

\* \d+(\.\d+)* from s[i]: the index after it, 0 when s[i] is no digit
RECURSIVE DotGroups(_, _)
DotGroups(s, e) ==
    IF e <= Len(s) /\ s[e] = "." /\ RunLen(s, e + 1, DigitChars, Len(s)) >= 1
    THEN DotGroups(s, e + 1 + RunLen(s, e + 1, DigitChars, Len(s)))
    ELSE e

NumberEnd(s, i) ==
    IF RunLen(s, i, DigitChars, Len(s)) = 0 THEN 0
    ELSE DotGroups(s, i + RunLen(s, i, DigitChars, Len(s)))

\* lines 95-99: VERSION_PATTERNS; the match of the group 'version' starts
\* one character after the match
VersionSearch(k, s) ==
    LET lead == CASE k = 1 -> {"v", "V"} [] k = 2 -> {"r", "R"} [] OTHER -> {"_"}
        starts == {i \in 1..Len(s) :
                      /\ s[i] \in lead
                      /\ NumberEnd(s, i + 1) # 0
                      /\ k = 3 => NumberEnd(s, i + 1) = Len(s) + 1}
    IN IF starts = {} THEN <<>>
       ELSE MatchAt(Least(starts), NumberEnd(s, Least(starts) + 1))

\* lines 101-105: DATE_PATTERNS
DATE_PATTERNS ==
    << [items |-> <<Cls(DigitChars, 4, 4), Lit("-"), Cls(DigitChars, 2, 2),
                    Lit("-"), Cls(DigitChars, 2, 2)>>,
        format |-> "%Y-%m-%d"],
       [items |-> <<Cls(DigitChars, 8, 8)>>, format |-> "%Y%m%d"],
       [items |-> <<Cls(DigitChars, 2, 2), Lit("-"), Cls(DigitChars, 2, 2),
                    Lit("-"), Cls(DigitChars, 4, 4)>>,
        format |-> "%d-%m-%Y"] >>

\* int() of a digit string of a date field
RECURSIVE int(_)
int(ds) ==
    LET DigitValue(c) == CHOOSE d \in 0..9 : DigitSeq[d + 1] = c
    IN IF ds = <<>> THEN 0
       ELSE 10 * int(SubSeq(ds, 1, Len(ds) - 1)) + DigitValue(ds[Len(ds)])

\* datetime.strptime on text the pattern of the same format has matched, so
\* every field has its full width: <<date>>, or <<>> for ValueError (a month
\* or day out of range, year 0)
strptime(date_str, format) ==
    LET f(a, b) == int(SubSeq(date_str, a, b))
        IsLeap(y) == (y % 4 = 0 /\ y % 100 # 0) \/ y % 400 = 0
        DaysIn(y, m) ==
            CASE m \in {4, 6, 9, 11} -> 30
              [] m = 2 -> IF IsLeap(y) THEN 29 ELSE 28
              [] OTHER -> 31
        ymd == CASE format = "%Y-%m-%d" ->
                      [year |-> f(1, 4), month |-> f(6, 7), day |-> f(9, 10)]
                 [] format = "%Y%m%d" ->
                      [year |-> f(1, 4), month |-> f(5, 6), day |-> f(7, 8)]
                 [] OTHER ->
                      [year |-> f(7, 10), month |-> f(4, 5), day |-> f(1, 2)]
    IN IF /\ ymd.year >= 1
          /\ ymd.month \in 1..12
          /\ ymd.day \in 1..DaysIn(ymd.year, ymd.month)
       THEN <<ymd>> ELSE <<>>

\* lines 108-116 and 119-128, in dict order
DISCIPLINES ==
    << [term |-> <<"A", "R", "C", "H">>,
        desc |-> "Architecture"],
       [term |-> <<"S", "T", "R">>,
        desc |-> "Structural"],
       [term |-> <<"M", "E", "P">>,
        desc |-> "Mechanical/Electrical/Plumbing"],
       [term |-> <<"C", "I", "V", "I", "L">>,
        desc |-> "Civil"],
       [term |-> <<"L", "A", "N", "D">>,
        desc |-> "Landscape"],
       [term |-> <<"I", "N", "T">>,
        desc |-> "Interior"],
       [term |-> <<"G", "E", "N">>,
        desc |-> "General"] >>

STATUS_TERMS ==
    << [term |-> <<"D", "R", "A", "F", "T">>,
        desc |-> "Draft"],
       [term |-> <<"R", "E", "V", "I", "E", "W">>,
        desc |-> "Under Review"],
       [term |-> <<"A", "P", "P", "R", "O", "V", "E", "D">>,
        desc |-> "Approved"],
       [term |-> <<"F", "I", "N", "A", "L">>,
        desc |-> "Final"],
       [term |-> <<"I", "S", "S", "U", "E", "D">>,
        desc |-> "Issued"],
       [term |-> <<"W", "I", "P">>,
        desc |-> "Work in Progress"],
       [term |-> <<"S", "U", "P", "E", "R", "S", "E", "D", "E", "D">>,
        desc |-> "Superseded"],
       [term |-> <<"A", "R", "C", "H", "I", "V", "E", "D">>,
        desc |-> "Archived"] >>

\* str.find as a 1-based index, 0 when absent; "in" is find(...) # 0
str_find(s, sub) ==
    LET at == {i \in 1..(Len(s) - Len(sub) + 1) :
                  SubSeq(s, i, i + Len(sub) - 1) = sub}
    IN IF at = {} THEN 0 ELSE Least(at)

\* the file names handed to parse_file_name: a stem built from the pieces
\* below, or the stem of the worked example, with the suffix .pdf
StemPieces ==
    { <<"A", "B", "-", "1", "2", "3">>,
      <<"1", "2", "3", "4", "-", "A", "B">>,
      <<"P", "R", "J", "-", "1", "2", "3", "4">>,
      <<"P", "1", "2", "3", "4", "5">>,
      <<"v", "2", ".", "1">>,
      <<"r", "3">>,
      <<"_", "7">>,
      <<"_">>,
      <<"-">>,
      <<"2", "0", "2", "3", "-", "0", "5", "-", "0", "1">>,
      <<"2", "0", "2", "3", "-", "1", "3", "-", "0", "1">>,
      <<"2", "0", "2", "3", "0", "5", "0", "1">>,
      <<"2", "0", "2", "3", "1", "3", "0", "1">>,
      <<"0", "1", "-", "0", "5", "-", "2", "0", "2", "3">>,
      <<"3", "1", "-", "0", "2", "-", "2", "0", "2", "3">>,
      <<"F", "I", "N", "A", "L">>,
      <<"d", "r", "a", "f", "t">>,
      <<"A", "R", "C", "H">>,
      <<"x">> }

ExampleStem ==
    <<"A", "B", "C", "-", "1", "2", "3", "4", "_", "v", "2", ".", "1", "_",
       "2", "0", "2", "3", "-", "0", "5", "-", "0", "1", "_", "F", "I", "N", "A", "L">>

RECURSIVE StemsOf(_)
StemsOf(n) ==
    IF n = 0 THEN {<<>>}
    ELSE StemsOf(n - 1) \cup {a \o t : a \in StemsOf(n - 1), t \in StemPieces}

ParserInputs ==
    {s \o <<".", "p", "d", "f">> : s \in StemsOf(MaxPieces) \cup {ExampleStem}}

\* PurePath.stem: the name without its suffix
path_stem(name) == SubSeq(name, 1, Len(name) - Len(path_suffix(name)))

\* int() of a digit string of any length, kept as the text str() gives for
\* it: the digits without leading zeros
RECURSIVE int_str(_)
int_str(ds) ==
    IF Len(ds) > 1 /\ ds[1] = "0" THEN int_str(Tail(ds)) ELSE ds

\* the pattern whose match starts leftmost, whatever its place in the list
EarliestHit_FirstHit(found) ==
    LET hits == {k \in 1..Len(found) : found[k] # <<>>}
    IN IF hits = {} THEN 0
       ELSE Least({k \in hits :
                      \A j \in hits : found[k][1].start <= found[j][1].start})

\* a "for pattern in PATTERNS: if match: ...; break" loop (lines 145-156,
\* 159-169, 200-208, 211-219): the number of the first pattern of the list
\* that found something, 0 when none did
FirstHit(found) ==
    LET hits == {k \in 1..Len(found) : found[k] # <<>>}
    IN IF hits = {} THEN 0 ELSE Least(hits)

ProjectSearch(k, s) == re_search(PROJECT_PATTERNS[k].items, s)

\* lines 173-186 for pattern k: the match and its date, <<>> when the pattern
\* does not match or strptime raises ValueError
DateTry(k, s) ==
    LET m == re_search(DATE_PATTERNS[k].items, s)
    IN IF m = <<>> THEN <<>>
       ELSE LET d == strptime(group(s, m[1]), DATE_PATTERNS[k].format)
            IN IF d = <<>> THEN <<>>
               ELSE <<[start |-> m[1].start, end |-> m[1].end, date |-> d[1]]>>

\* a loop that stops at the first pattern that matches, valid date or not
BreakOnInvalid_DateHit(s) ==
    LET k == FirstHit([j \in 1..Len(DATE_PATTERNS) |->
                          re_search(DATE_PATTERNS[j].items, s)])
    IN IF k # 0 /\ DateTry(k, s) # <<>> THEN k ELSE 0

\* lines 172-186: break on the first pattern whose match parses, continue
\* after a ValueError
DateHit(s) == FirstHit([k \in 1..Len(DATE_PATTERNS) |-> DateTry(k, s)])

\* line 189: re.search(r'_(\d+)(?=_|$)', name)
SeqSearch(s) ==
    LET run(i) == RunLen(s, i + 1, DigitChars, Len(s))
        starts == {i \in 1..Len(s) :
                      /\ s[i] = "_"
                      /\ run(i) >= 1
                      /\ \/ i + 1 + run(i) > Len(s)
                         \/ s[i + 1 + run(i)] = "_"}
    IN IF starts = {} THEN <<>>
       ELSE MatchAt(Least(starts), Least(starts) + 1 + run(Least(starts)))

\* "if code in name.upper()" for entry k of a vocabulary
VocabSearch(table, k, s) ==
    LET at == str_find(str_upper(s), table[k].term)
    IN IF at = 0 THEN <<>> ELSE MatchAt(at, at + Len(table[k].term))

NameComponent(type, value, confidence, position) ==
    [type |-> type, value |-> value, confidence |-> confidence,
     position |-> position]

\* sorted(components, key=lambda x: x.position): stable
RECURSIVE sorted(_)
sorted(cs) ==
    IF cs = <<>> THEN <<>>
    ELSE LET rest == sorted(SubSeq(cs, 1, Len(cs) - 1))
             c == cs[Len(cs)]
             before == SelectSeq(rest, LAMBDA x : x.position <= c.position)
             after == SelectSeq(rest, LAMBDA x : x.position > c.position)
         IN before \o <<c>> \o after

\* lines 130-224
parse_file_name(file_path) ==
    LET name == path_stem(file_path)
        pk == FirstHit([k \in 1..Len(PROJECT_PATTERNS) |-> ProjectSearch(k, name)])
        pm == ProjectSearch(pk, name)[1]
        vk == FirstHit([k \in 1..3 |-> VersionSearch(k, name)])
        vm == VersionSearch(vk, name)[1]
        version == SubSeq(name, vm.start + 1, vm.end - 1)
        dk == DateHit(name)
        dm == DateTry(dk, name)[1]
        sm == SeqSearch(name)
        seq == int_str(SubSeq(name, sm[1].start + 1, sm[1].end - 1))
        ck == FirstHit([k \in 1..Len(DISCIPLINES) |->
                           VocabSearch(DISCIPLINES, k, name)])
        tk == FirstHit([k \in 1..Len(STATUS_TERMS) |->
                           VocabSearch(STATUS_TERMS, k, name)])
        components ==
            (IF pk = 0 THEN <<>>
             ELSE <<NameComponent("project_code", group(name, pm),
                                  PROJECT_PATTERNS[pk].confidence,
                                  pm.start - 1)>>)
            \o (IF vk = 0 THEN <<>>
                ELSE <<NameComponent("version", version, 100, vm.start - 1)>>)
            \o (IF dk = 0 THEN <<>>
                ELSE <<NameComponent("date", group(name, dm), 100,
                                     dm.start - 1)>>)
            \o (IF sm = <<>> THEN <<>>
                ELSE <<NameComponent("sequence", seq, 100,
                                     sm[1].start - 1)>>)
            \o (IF ck = 0 THEN <<>>
                ELSE <<NameComponent("discipline", DISCIPLINES[ck].desc, 100,
                                     VocabSearch(DISCIPLINES, ck, name)[1].start
                                       - 1)>>)
            \o (IF tk = 0 THEN <<>>
                ELSE <<NameComponent("status", STATUS_TERMS[tk].desc, 100,
                                     VocabSearch(STATUS_TERMS, tk, name)[1].start
                                       - 1)>>)
    IN [original |-> name,
        components |-> sorted(components),
        project_code |-> IF pk = 0 THEN <<>> ELSE <<group(name, pm)>>,
        version |-> IF vk = 0 THEN <<>> ELSE <<version>>,
        date |-> IF dk = 0 THEN <<>> ELSE <<dm.date>>,
        sequence |-> IF sm = <<>> THEN <<>> ELSE <<seq>>,
        discipline |-> IF ck = 0 THEN <<>> ELSE <<DISCIPLINES[ck].desc>>,
        status |-> IF tk = 0 THEN <<>> ELSE <<STATUS_TERMS[tk].desc>>]

InitParser ==
    /\ parse_pc = "ready"
    /\ parse_path \in ParserInputs
    /\ parsed = <<>>

IdleParser ==
    /\ parse_pc = "off"
    /\ parse_path = <<>>
    /\ parsed = <<>>

ParseFileName ==
    /\ parse_pc = "ready"
    /\ parsed' = <<parse_file_name(parse_path)>>
    /\ parse_pc' = "done"
    /\ UNCHANGED parse_path
    /\ UNCHANGED notParseVars

NextParser ==
    \/ ParseFileName

\* ------------------------------------------------------ DirectoryAnalyzer
\* the characters of names, in the order of their code points
Ascii == <<"-", ".">> \o DigitSeq \o UpperLetters \o <<"_">> \o LowerLetters

\* s <= t as Python compares str
str_le(s, t) ==
    LET ord(c) == CHOOSE k \in 1..Len(Ascii) : Ascii[k] = c
        diff == {i \in 1..Min(Len(s), Len(t)) : s[i] # t[i]}
    IN IF diff = {} THEN Len(s) <= Len(t)
       ELSE ord(s[Least(diff)]) < ord(t[Least(diff)])

\* sorted() of a set of str
RECURSIVE sorted_str(_)
sorted_str(S) ==
    IF S = {} THEN <<>>
    ELSE LET m == CHOOSE s \in S : \A t \in S : str_le(s, t)
         IN <<m>> \o sorted_str(S \ {m})

\* sep.join(parts) for a list that is not empty
RECURSIVE str_join(_, _)
str_join(sep, parts) ==
    IF Len(parts) = 1 THEN parts[1]
    ELSE parts[1] \o sep \o str_join(sep, Tail(parts))

\* lines 32-45: ProjectCodeMatcher.match, <<code>> or <<>> for None
ProjectCodeMatcher_match(text) ==
    LET PATTERNS ==
            << <<Cls(UpperSet, 2, 4), Lit("-"), Cls(DigitChars, 3, 6)>>,
               <<Cls(DigitChars, 4, 6), Lit("-"), Cls(UpperSet, 2, 4)>>,
               <<Lit("P"), Lit("R"), Lit("J"), Lit("-"), Cls(DigitChars, 4, 6)>>,
               <<Lit("P"), Cls(DigitChars, 5, 8)>> >>
        found == [k \in 1..Len(PATTERNS) |-> re_search(PATTERNS[k], text)]
    IN IF FirstHit(found) = 0 THEN <<>>
       ELSE <<group(text, found[FirstHit(found)][1])>>

\* lines 50-62: VersionMatcher.match; its three expressions are those of
\* VersionSearch
VersionMatcher_match(text) ==
    LET found == [k \in 1..3 |-> VersionSearch(k, text)]
    IN IF FirstHit(found) = 0 THEN <<>>
       ELSE <<SubSeq(text, found[FirstHit(found)][1].start + 1,
                     found[FirstHit(found)][1].end - 1)>>

\* the first and the last name in place of min(names) and max(names)
FirstLast_find_common_prefix(names) ==
    LET s1 == names[1]
        s2 == names[Len(names)]
        diff == {i \in 1..Len(s1) : i <= Len(s2) => s1[i] # s2[i]}
    IN IF names = <<>> THEN <<>>
       ELSE IF diff = {} THEN <<s1>>
       ELSE <<SubSeq(s1, 1, Least(diff) - 1)>>

\* lines 160-178: <<prefix>>, or <<>> for None. min(names) is a prefix of
\* max(names) or differs from it at an index both have.
_find_common_prefix(names) ==
    LET idx == 1..Len(names)
        s1 == names[CHOOSE i \in idx : \A j \in idx : str_le(names[i], names[j])]
        s2 == names[CHOOSE i \in idx : \A j \in idx : str_le(names[j], names[i])]
        diff == {i \in 1..Len(s1) : i <= Len(s2) => s1[i] # s2[i]}
    IN IF names = <<>> THEN <<>>
       ELSE IF diff = {} THEN <<s1>>
       ELSE <<SubSeq(s1, 1, Least(diff) - 1)>>

\* numbers that differ, with or without gaps
AllowGaps_detect_naming_pattern(stems) ==
    LET digits(s) == re_search(<<Cls(DigitChars, 1, Len(s))>>, s)
        numbered == SelectSeq(stems, LAMBDA s : digits(s) # <<>>)
        numbers == [i \in 1..Len(numbered) |->
                       int(group(numbered[i], digits(numbered[i])[1]))]
        all == {numbers[i] : i \in 1..Len(numbers)}
        lo == CHOOSE n \in all : \A m \in all : n <= m
        hi == CHOOSE n \in all : \A m \in all : m <= n
        sequential ==
            /\ numbers # <<>>
            /\ Len(numbers) = Len(stems)
            /\ Len(numbers) = Cardinality(all)
        dates == SelectSeq(stems, LAMBDA s :
                     re_search(<<Cls(DigitChars, 4, 4), Lit("-"),
                                 Cls(DigitChars, 2, 2), Lit("-"),
                                 Cls(DigitChars, 2, 2)>>, s) # <<>>)
        versions == SelectSeq(stems, LAMBDA s : VersionMatcher_match(s) # <<>>)
        patterns ==
            (IF sequential THEN <<"Sequential numbering">> ELSE <<>>)
            \o (IF dates # <<>> /\ 2 * Len(dates) > Len(stems)
                THEN <<"Date-based naming">> ELSE <<>>)
            \o (IF versions # <<>> /\ 2 * Len(versions) > Len(stems)
                THEN <<"Version-based naming">> ELSE <<>>)
    IN IF patterns = <<>> THEN <<>> ELSE <<str_join(" + ", patterns)>>

\* lines 180-225 on the stems of the files: <<description>>, or <<>> for None
_detect_naming_pattern(stems) ==
    LET digits(s) == re_search(<<Cls(DigitChars, 1, Len(s))>>, s)
        numbered == SelectSeq(stems, LAMBDA s : digits(s) # <<>>)
        numbers == [i \in 1..Len(numbered) |->
                       int(group(numbered[i], digits(numbered[i])[1]))]
        all == {numbers[i] : i \in 1..Len(numbers)}
        lo == CHOOSE n \in all : \A m \in all : n <= m
        hi == CHOOSE n \in all : \A m \in all : m <= n
        \* sorted(numbers) == list(range(min(numbers), max(numbers) + 1))
        sequential ==
            /\ numbers # <<>>
            /\ Len(numbers) = Len(stems)
            /\ Len(numbers) = hi + 1 - lo
            /\ all = lo..hi
        dates == SelectSeq(stems, LAMBDA s :
                     re_search(<<Cls(DigitChars, 4, 4), Lit("-"),
                                 Cls(DigitChars, 2, 2), Lit("-"),
                                 Cls(DigitChars, 2, 2)>>, s) # <<>>)
        versions == SelectSeq(stems, LAMBDA s : VersionMatcher_match(s) # <<>>)
        patterns ==
            (IF sequential THEN <<"Sequential numbering">> ELSE <<>>)
            \o (IF dates # <<>> /\ 2 * Len(dates) > Len(stems)
                THEN <<"Date-based naming">> ELSE <<>>)
            \o (IF versions # <<>> /\ 2 * Len(versions) > Len(stems)
                THEN <<"Version-based naming">> ELSE <<>>)
    IN IF patterns = <<>> THEN <<>> ELSE <<str_join(" + ", patterns)>>

\* lines 8-19: a new DirectoryGroup; an Optional is <<>> or <<value>>, and
\* metadata holds the two keys the analyzer writes, <<>> for a key not present
DirectoryGroup(path, level) ==
    [path |-> path, level |-> level, pattern |-> <<>>, project_code |-> <<>>,
     common_prefix |-> <<>>, file_count |-> 0, subdirs |-> <<>>,
     files |-> <<>>, metadata |-> [projects |-> <<>>, error |-> <<>>]]

\* lines 106-133: what the files of the directory add to its group. The text
\* under 'projects' is <<"str", text>>, a set there is <<"set", codes>>.
AnalyzeFiles(grp, fs) ==
    LET names == [i \in 1..Len(fs) |-> path_stem(fs[i])]
        prefix == _find_common_prefix(names)
        project_codes ==
            {ProjectCodeMatcher_match(names[i])[1] :
                i \in {j \in 1..Len(names) :
                          ProjectCodeMatcher_match(names[j]) # <<>>}}
        g1 == [grp EXCEPT !.files = fs, !.file_count = Len(fs)]
        g2 == IF prefix # <<>> /\ Len(prefix[1]) > 3
              THEN [g1 EXCEPT !.common_prefix = prefix] ELSE g1
        g3 == IF Cardinality(project_codes) = 1
              THEN [g2 EXCEPT !.project_code =
                                  <<CHOOSE c \in project_codes : TRUE>>]
              ELSE IF Cardinality(project_codes) > 1
              THEN [g2 EXCEPT !.metadata.projects =
                       <<"str", str_join(<<",", " ">>,
                                         sorted_str(project_codes))>>]
              ELSE g2
    IN IF fs = <<>> THEN g1
       ELSE [g3 EXCEPT !.pattern = _detect_naming_pattern(names)]

\* lines 138-149: the parent's group after one subdirectory has been
\* analysed. 'projects' may hold the text line 128 stored; text has no add(),
\* so line 149 raises AttributeError, which line 156 records.
Reconcile(grp, subgroup) ==
    LET g1 == [grp EXCEPT !.subdirs = Append(@, subgroup)]
        g2 == [g1 EXCEPT !.project_code = <<>>]
        g3 == IF g2.metadata.projects = <<>>
              THEN [g2 EXCEPT !.metadata.projects = <<"set", {}>>] ELSE g2
    IN IF subgroup.project_code = <<>> THEN g1
       ELSE IF g1.project_code = <<>>
       THEN [g1 EXCEPT !.project_code = subgroup.project_code]
       ELSE IF g1.project_code = subgroup.project_code THEN g1
       ELSE IF g3.metadata.projects[1] = "set"
       THEN [g3 EXCEPT !.metadata.projects =
                <<"set", @[2] \cup {subgroup.project_code[1]}>>]
       ELSE [g3 EXCEPT !.metadata.error =
                <<"'str' object has no attribute 'add'">>]

\* ---- the directory tree under the path given to analyze_directory
FileX == <<"A", "B", "-", "1", "2", "3", ".", "t">>
FileY == <<"C", "D", "-", "4", "5", "6", ".", "t">>

\* a directory: its files and subdirectories as iterdir lists them, or one
\* whose iterdir raises
Dir(fs, ds) == [files |-> fs, dirs |-> ds, fails |-> FALSE]
Denied == [files |-> <<>>, dirs |-> <<>>, fails |-> TRUE]

DaSubtrees ==
    { Dir(<<>>, <<>>), Denied, Dir(<<FileX>>, <<>>), Dir(<<FileY>>, <<>>),
      Dir(<<FileX, FileY>>, <<Dir(<<FileX>>, <<>>), Dir(<<FileY>>, <<>>)>>) }

DaTrees ==
    { Dir(fs, ds) :
        fs \in {<<>>, <<FileX>>, <<FileX, FileY>>},
        ds \in UNION {[1..n -> DaSubtrees] : n \in 0..MaxSubdirs} }

\* ---- directories for the naming pattern and the common prefix: the files
\* a directory may hold, in the order iterdir lists them
PatternFiles == <<
    <<"f", "_", "2", ".", "t">>,
    <<"n", "o", "t", "e", "s", ".", "t">>,
    <<"f", "_", "1", ".", "t">>,
    <<"r", "e", "p", "_", "v", "2", ".", "t">>,
    <<"2", "0", "2", "5", "-", "0", "1", "-", "0", "5", ".", "t">>,
    <<"a", "1", ".", "t">>,
    <<"f", "_", "3", ".", "t">>,
    <<"r", "e", "p", "_", "v", "1", "0", ".", "t">>,
    <<"2", "0", "2", "4", "-", "0", "1", "-", "0", "5", ".", "t">>,
    <<"r", "e", "p", "_", "v", "1", ".", "t">>,
    <<"2", "0", "2", "4", "-", "0", "1", "-", "0", "6", ".", "t">>,
    <<"v", "1", "_", "2", "0", "2", "4", "-", "0", "1", "-", "0", "5", ".", "t">>
>>

\* five files numbered 1 to 5
FiveFiles == <<
    <<"f", "_", "3", ".", "t">>,
    <<"f", "_", "1", ".", "t">>,
    <<"f", "_", "5", ".", "t">>,
    <<"f", "_", "2", ".", "t">>,
    <<"f", "_", "4", ".", "t">>
>>

PatternTrees ==
    { Dir(fs, ds) :
        fs \in {SelectIdx(PatternFiles, S, 1) :
                   S \in {T \in SUBSET (1..Len(PatternFiles)) :
                             Cardinality(T) <= MaxStems}} \cup {FiveFiles},
        ds \in {<<>>, <<Denied>>} }

\* the path of the k-th subdirectory of p
SubPath(p, k) == Append(p, <<"d", DigitSeq[k + 1]>>)

\* the local variables of one call of _analyze_recursive: at is "try" before
\* line 101, "loop" at line 136 with i subdirectories done, "return" at
\* line 158
Frame(path, level, node) ==
    [group |-> DirectoryGroup(path, level), node |-> node, at |-> "try", i |-> 0]

Top == da_stack[Len(da_stack)]

SetTop(frame) == [da_stack EXCEPT ![Len(da_stack)] = frame]

InitAnalyzer ==
    /\ da_pc = "ready"
    /\ da_tree \in DaTrees
    /\ da_stack = <<>>
    /\ da_groups = <<>>
    /\ da_result = <<>>
    /\ da_returned = <<>>
    /\ da_raised = {}
    /\ da_differing = {}

IdleAnalyzer ==
    /\ da_pc = "off"
    /\ da_tree = <<>>
    /\ da_stack = <<>>
    /\ da_groups = <<>>
    /\ da_result = <<>>
    /\ da_returned = <<>>
    /\ da_raised = {}
    /\ da_differing = {}

\* lines 84-85 and 97
AnalyzeDirectory ==
    /\ da_pc = "ready"
    /\ da_pc' = "running"
    /\ da_groups' = <<>>
    /\ da_stack' = <<Frame(root_path, 0, da_tree)>>
    /\ UNCHANGED <<da_tree, da_result, da_returned, da_raised, da_differing>>
    /\ UNCHANGED notDaVars

\* line 101 raises: lines 154-156
ListFails ==
    /\ da_pc = "running"
    /\ Top.at = "try"
    /\ Top.node.fails
    /\ da_stack' = SetTop([Top EXCEPT
                              !.group.metadata.error = <<"Permission denied">>,
                              !.at = "return"])
    /\ da_raised' = da_raised \cup {Top.group.path}
    /\ UNCHANGED <<da_pc, da_tree, da_groups, da_result, da_returned, da_differing>>
    /\ UNCHANGED notDaVars

\* lines 101-133
ListDir ==
    /\ da_pc = "running"
    /\ Top.at = "try"
    /\ ~Top.node.fails
    /\ da_stack' = SetTop([Top EXCEPT
                              !.group = AnalyzeFiles(@, Top.node.files),
                              !.at = "loop"])
    /\ UNCHANGED <<da_pc, da_tree, da_groups, da_result, da_returned,
                   da_raised, da_differing>>
    /\ UNCHANGED notDaVars

\* lines 136-137: the call for the next subdirectory
Descend ==
    /\ da_pc = "running"
    /\ Top.at = "loop"
    /\ Top.i < Len(Top.node.dirs)
    /\ da_stack' = Append(da_stack,
                          Frame(SubPath(Top.group.path, Top.i + 1),
                                Top.group.level + 1, Top.node.dirs[Top.i + 1]))
    /\ UNCHANGED <<da_pc, da_tree, da_groups, da_result, da_returned,
                   da_raised, da_differing>>
    /\ UNCHANGED notDaVars

\* line 152, after the last subdirectory
Store ==
    /\ da_pc = "running"
    /\ Top.at = "loop"
    /\ Top.i = Len(Top.node.dirs)
    /\ da_groups' = (Top.group.path :> Top.group) @@ da_groups
    /\ da_stack' = SetTop([Top EXCEPT !.at = "return"])
    /\ UNCHANGED <<da_pc, da_tree, da_result, da_returned, da_raised,
                   da_differing>>
    /\ UNCHANGED notDaVars

\* line 158 of the call for a subdirectory, then lines 137-149 of its caller
Return ==
    /\ da_pc = "running"
    /\ Len(da_stack) >= 2
    /\ Top.at = "return"
    /\ LET caller == da_stack[Len(da_stack) - 1]
           subgroup == Top.group
           grp == Reconcile(caller.group, subgroup)
           threw == grp.metadata.error # <<>>
           differs == /\ subgroup.project_code # <<>>
                      /\ caller.group.project_code # <<>>
                      /\ caller.group.project_code # subgroup.project_code
       IN /\ da_stack' = [SubSeq(da_stack, 1, Len(da_stack) - 1)
                             EXCEPT ![Len(da_stack) - 1] =
                                 [caller EXCEPT
                                     !.group = grp,
                                     !.i = @ + 1,
                                     !.at = IF threw THEN "return" ELSE "loop"]]
          /\ da_returned' = (subgroup.path :> subgroup) @@ da_returned
          /\ da_raised' = IF threw THEN da_raised \cup {caller.group.path}
                          ELSE da_raised
          /\ da_differing' =
                IF differs
                THEN da_differing \cup
                         {<<caller.group.path, subgroup.project_code[1]>>}
                ELSE da_differing
    /\ UNCHANGED <<da_pc, da_tree, da_groups, da_result>>
    /\ UNCHANGED notDaVars

\* line 158 of the first call, line 85
AnalyzeReturn ==
    /\ da_pc = "running"
    /\ Len(da_stack) = 1
    /\ Top.at = "return"
    /\ da_result' = <<Top.group>>
    /\ da_returned' = (Top.group.path :> Top.group) @@ da_returned
    /\ da_stack' = <<>>
    /\ da_pc' = "done"
    /\ UNCHANGED <<da_tree, da_groups, da_raised, da_differing>>
    /\ UNCHANGED notDaVars

NextAnalyzer ==
    \/ AnalyzeDirectory
    \/ ListFails
    \/ ListDir
    \/ Descend
    \/ Store
    \/ Return
    \/ AnalyzeReturn

\* ------------------------------------------------------------- AutoTagger
\* file_parser.py lines 32-84: EXTENSIONS, each category split at its colon
EXTENSIONS ==
    << <<<<".", "d", "o", "c">>, "document", "word">>,
       <<<<".", "d", "o", "c", "x">>, "document", "word">>,
       <<<<".", "p", "d", "f">>, "document", "pdf">>,
       <<<<".", "t", "x", "t">>, "document", "text">>,
       <<<<".", "r", "t", "f">>, "document", "rich_text">>,
       <<<<".", "x", "l", "s">>, "spreadsheet", "excel">>,
       <<<<".", "x", "l", "s", "x">>, "spreadsheet", "excel">>,
       <<<<".", "x", "l", "s", "m">>, "spreadsheet", "excel_macro">>,
       <<<<".", "c", "s", "v">>, "spreadsheet", "csv">>,
       <<<<".", "m", "s", "g">>, "email", "outlook">>,
       <<<<".", "e", "m", "l">>, "email", "standard">>,
       <<<<".", "r", "v", "t">>, "model", "revit">>,
       <<<<".", "d", "w", "g">>, "model", "autocad">>,
       <<<<".", "i", "f", "c">>, "model", "ifc">>,
       <<<<".", "s", "k", "p">>, "model", "sketchup">>,
       <<<<".", "j", "p", "g">>, "image", "jpeg">>,
       <<<<".", "j", "p", "e", "g">>, "image", "jpeg">>,
       <<<<".", "p", "n", "g">>, "image", "png">>,
       <<<<".", "g", "i", "f">>, "image", "gif">>,
       <<<<".", "b", "m", "p">>, "image", "bitmap">>,
       <<<<".", "t", "i", "f">>, "image", "tiff">>,
       <<<<".", "t", "i", "f", "f">>, "image", "tiff">>,
       <<<<".", "p", "y">>, "code", "python">>,
       <<<<".", "j", "s">>, "code", "javascript">>,
       <<<<".", "h", "t", "m", "l">>, "code", "html">>,
       <<<<".", "c", "s", "s">>, "code", "css">>,
       <<<<".", "c", "p", "p">>, "code", "cpp">>,
       <<<<".", "h">>, "code", "cpp_header">>,
       <<<<".", "j", "s", "o", "n">>, "data", "json">>,
       <<<<".", "x", "m", "l">>, "data", "xml">>,
       <<<<".", "s", "q", "l">>, "data", "sql">>,
       <<<<".", "d", "b">>, "data", "database">>,
       <<<<".", "z", "i", "p">>, "archive", "zip">>,
       <<<<".", "r", "a", "r">>, "archive", "rar">>,
       <<<<".", "7", "z">>, "archive", "7zip">>,
       <<<<".", "t", "a", "r">>, "archive", "tar">>,
       <<<<".", "g", "z">>, "archive", "gzip">> >>

\* file_parser.py lines 226-250: <<main, sub>>, or <<>> for (None, None)
get_category_parts(file_path) ==
    LET lower(c) ==
            IF \E k \in 1..26 : UpperLetters[k] = c
            THEN LowerLetters[CHOOSE k \in 1..26 : UpperLetters[k] = c]
            ELSE c
        suffix == [i \in 1..Len(path_suffix(file_path)) |->
                      lower(path_suffix(file_path)[i])]
        hits == {k \in 1..Len(EXTENSIONS) : EXTENSIONS[k][1] = suffix}
    IN IF hits = {} THEN <<>>
       ELSE <<EXTENSIONS[CHOOSE k \in hits : TRUE][2],
              EXTENSIONS[CHOOSE k \in hits : TRUE][3]>>

\* metadata.py lines 23-29: a tag; the name f"{kind}:{value}" is kept as
\* <<kind, value>>, the confidence in hundredths
FileTag(name, source, confidence) ==
    [name |-> name, source |-> source, confidence |-> confidence]

\* the ladder with every bound included in the lower bucket
InclusiveBound_get_size_tag(st) ==
    IF st = <<>> THEN <<>>
    ELSE IF st[1] <= 1024 THEN <<FileTag(<<"size", "tiny">>, "auto", 100)>>
    ELSE IF st[1] <= 1024 * 1024 THEN <<FileTag(<<"size", "small">>, "auto", 100)>>
    ELSE IF st[1] <= 10 * 1024 * 1024
    THEN <<FileTag(<<"size", "medium">>, "auto", 100)>>
    ELSE IF st[1] <= 100 * 1024 * 1024
    THEN <<FileTag(<<"size", "large">>, "auto", 100)>>
    ELSE <<FileTag(<<"size", "huge">>, "auto", 100)>>

\* metadata.py lines 206-221; st is what file_path.stat() gives: <<st_size>>,
\* or <<>> when it raises. <<tag>>, or <<>> for None.
_get_size_tag(st) ==
    IF st = <<>> THEN <<>>
    ELSE IF st[1] < 1024 THEN <<FileTag(<<"size", "tiny">>, "auto", 100)>>
    ELSE IF st[1] < 1024 * 1024 THEN <<FileTag(<<"size", "small">>, "auto", 100)>>
    ELSE IF st[1] < 10 * 1024 * 1024
    THEN <<FileTag(<<"size", "medium">>, "auto", 100)>>
    ELSE IF st[1] < 100 * 1024 * 1024
    THEN <<FileTag(<<"size", "large">>, "auto", 100)>>
    ELSE <<FileTag(<<"size", "huge">>, "auto", 100)>>

\* metadata.py lines 126-204; patterns is the set of the descriptions of the
\* patterns given, directory_group is <<group>> or <<>> for None. No two of
\* the tags added have the same name, so every add() adds.
generate_tags(file_path, patterns, parsed_name, directory_group, st) ==
    LET cat == get_category_parts(file_path)
        size_tag == _get_size_tag(st)
        grp == directory_group[1]
    IN (IF cat = <<>> THEN {}
        ELSE {FileTag(<<"type", cat[1]>>, "auto", 100),
              FileTag(<<"subtype", cat[2]>>, "auto", 100)})
       \cup {FileTag(<<"pattern", d>>, "auto", 80) : d \in patterns}
       \cup (IF size_tag # <<>> THEN {size_tag[1]} ELSE {})
       \cup (IF parsed_name.project_code # <<>>
             THEN {FileTag(<<"project", parsed_name.project_code[1]>>, "auto", 90)}
             ELSE {})
       \cup (IF parsed_name.discipline # <<>>
             THEN {FileTag(<<"discipline", parsed_name.discipline[1]>>, "auto", 90)}
             ELSE {})
       \cup (IF parsed_name.status # <<>>
             THEN {FileTag(<<"status", parsed_name.status[1]>>, "auto", 90)}
             ELSE {})
       \cup (IF directory_group # <<>> /\ grp.project_code # <<>>
             THEN {FileTag(<<"dir_project", grp.project_code[1]>>, "auto", 95)}
             ELSE {})
       \cup (IF directory_group # <<>> /\ grp.pattern # <<>>
             THEN {FileTag(<<"dir_pattern", grp.pattern[1]>>, "auto", 90)}
             ELSE {})
       \cup (IF directory_group # <<>> /\ grp.metadata.projects # <<>>
             THEN {FileTag(<<"multi_project_dir">>, "auto", 90)}
             ELSE {})

\* ---- the calls of generate_tags
TagFiles ==
    { <<"A", "B", "-", "1", "2", "3", "_", "A", "R", "C", "H", "_",
        "F", "I", "N", "A", "L", ".", "p", "d", "f">>,
      <<"x", ".", "P", "Y">>,
      <<"x">> }

\* st_size values: each bound of the ladder and its neighbours, and the
\* sizes of 500 bytes and 5 MiB
TagSizes ==
    {0, 500, 5 * 1024 * 1024}
    \cup {t + d : t \in {1024, 1024 * 1024, 10 * 1024 * 1024, 100 * 1024 * 1024},
                  d \in (0 - MaxOffset)..MaxOffset}

TagGroups ==
    { <<>>,
      <<[DirectoryGroup(root_path, 0) EXCEPT
            !.project_code = << <<"A", "B", "-", "1", "2", "3">> >>,
            !.pattern = <<"Sequential numbering">>]>>,
      <<[DirectoryGroup(root_path, 0) EXCEPT
            !.metadata.projects =
                <<"set", { <<"A", "B", "-", "1", "2", "3">> }>>]>> }

InitTagger ==
    /\ tag_pc = "ready"
    /\ \E f \in TagFiles :
          LET parsed_name == parse_file_name(f)
          IN tag_input \in
                { [file_path |-> f, patterns |-> ps, parsed_name |-> parsed_name,
                   directory_group |-> g, st |-> st] :
                     ps \in SUBSET {"Version indicator"}, g \in TagGroups,
                     st \in {<<>>} \cup {<<n>> : n \in TagSizes} }
    /\ tag_result = {}

IdleTagger ==
    /\ tag_pc = "off"
    /\ tag_input = <<>>
    /\ tag_result = {}

GenerateTags ==
    /\ tag_pc = "ready"
    /\ tag_result' = generate_tags(tag_input.file_path, tag_input.patterns,
                                   tag_input.parsed_name,
                                   tag_input.directory_group, tag_input.st)
    /\ tag_pc' = "done"
    /\ UNCHANGED tag_input
    /\ UNCHANGED notTagVars

NextTagger ==
    \/ GenerateTags

\* -------------------------------------------------------- MetadataService
\* metadata.py lines 58-91: the descriptions of COMMON_PATTERNS, in order
COMMON_PATTERNS ==
    << "Date pattern (YYYY-MM-DD)", "Version number", "Sequence number",
       "Version indicator", "Temporary file", "Test/Demo file", "Data file",
       "Configuration file" >>

\* metadata.py lines 19-21 for pattern k of COMMON_PATTERNS (lines 60, 64,
\* 68, 72, 76, 80, 84, 88) on a name already in lower case
matches_file(k, file_name) ==
    LET word == {LowerLetters[i] : i \in 1..26} \cup DigitChars \cup {"_"}
        any(words) == \E w \in words : str_find(file_name, w) # 0
        n == Len(file_name)
    IN CASE k = 1 -> re_search(<<Cls(DigitChars, 4, 4), Lit("-"),
                                 Cls(DigitChars, 2, 2), Lit("-"),
                                 Cls(DigitChars, 2, 2)>>, file_name) # <<>>
         [] k = 2 -> re_search(<<Lit("v"), Cls(DigitChars, 1, n)>>,
                               file_name) # <<>>
         [] k = 3 -> re_search(<<Cls(word \cup {"-"}, 1, n), Lit("_"),
                                 Cls(DigitChars, 1, n)>>, file_name) # <<>>
         [] k = 4 -> any({<<"b", "a", "c", "k", "u", "p">>, <<"b", "a", "k">>,
                          <<"o", "l", "d">>, <<"n", "e", "w">>,
                          <<"f", "i", "n", "a", "l">>,
                          <<"d", "r", "a", "f", "t">>})
         [] k = 5 -> any({<<"t", "e", "m", "p">>, <<"t", "m", "p">>,
                          <<"c", "a", "c", "h", "e">>})
         [] k = 6 -> any({<<"t", "e", "s", "t">>, <<"d", "e", "m", "o">>,
                          <<"s", "a", "m", "p", "l", "e">>,
                          <<"e", "x", "a", "m", "p", "l", "e">>})
         [] k = 7 -> any({<<"d", "a", "t", "a">>,
                          <<"e", "x", "p", "o", "r", "t">>,
                          <<"i", "m", "p", "o", "r", "t">>,
                          <<"r", "e", "p", "o", "r", "t">>})
         [] OTHER -> any({<<"c", "o", "n", "f", "i", "g">>,
                          <<"s", "e", "t", "t", "i", "n", "g", "s">>,
                          <<"p", "r", "e", "f", "e", "r", "e", "n", "c", "e", "s">>})

\* metadata.py lines 107-112: the pattern after one more match
NewPattern(pattern, file_name) ==
    [matches |-> pattern.matches + 1,
     examples |-> Append(SubSeq(pattern.examples, 1,
                                Min(4, Len(pattern.examples))), file_name)]

\* set.update with the equality of FileTag (metadata.py lines 31-39): a tag
\* whose name and source are already there is not added
tags_update(tags, new) ==
    tags \cup {t \in new :
                  ~\E u \in tags : u.name = t.name /\ u.source = t.source}

\* a user tag takes the place of the tags of its name
ReplaceNamed_add_tag(tags, tag_name) ==
    {t \in tags : t.name # tag_name} \cup {FileTag(tag_name, "user", 100)}

\* metadata.py lines 280-283 on the tags of a file that has metadata
add_tag(tags, tag_name) == tags_update(tags, {FileTag(tag_name, "user", 100)})

\* only the user's tags of the name go
UserOnly_remove_tag(tags, tag_name) ==
    {t \in tags : t.name # tag_name \/ t.source # "user"}

\* metadata.py lines 289-292 on the tags of a file that has metadata
remove_tag(tags, tag_name) == {t \in tags : t.name # tag_name}

\* ---- the files the service is asked about: the directory, the name and
\* what stat() gives for the file
MetaFiles ==
    { [dir |-> root_path, name |-> <<"v", "1", ".", "t", "x", "t">>,
       st |-> <<500>>],
      [dir |-> << <<"o">> >>, name |-> <<"v", "2", ".", "P", "Y">>,
       st |-> <<>>] }

\* the tag names the user gives: the name of an auto tag and one of her own
MetaTagNames == { <<"size", "tiny">>, <<"todo">> }

\* the tree under the root path given to MetadataService.analyze_directory
MetaTree ==
    Dir(<<FileX>>, <<Denied, Dir(<<FileX>>, <<>>)>>)

FilePath(f) == Append(f.dir, f.name)

\* metadata.py lines 235-238: self.current_root, <<>> for None. It is set
\* when MetadataService.analyze_directory is called, and the call has
\* returned once the analyzer is "done".
current_root == IF da_pc = "done" THEN <<root_path>> ELSE <<>>

\* metadata.py lines 226-233
InitMetadataService ==
    /\ meta_metadata = <<>>
    /\ meta_patterns = [k \in 1..Len(COMMON_PATTERNS) |->
                           [matches |-> 0, examples |-> <<>>]]
    /\ meta_calls = 0
    /\ meta_matched = [k \in 1..Len(COMMON_PATTERNS) |-> 0]
    /\ meta_last = [op |-> "", path |-> <<>>, name |-> <<>>, before |-> <<>>,
                    current_root |-> <<>>]

IdleMetadataService ==
    /\ meta_metadata = <<>>
    /\ meta_patterns = <<>>
    /\ meta_calls = 0
    /\ meta_matched = <<>>
    /\ meta_last = <<>>

\* metadata.py lines 240-273, with PatternAnalyzer.analyze_file (lines 99-117)
MetaAnalyzeFile ==
    /\ da_pc \in {"ready", "done"}
    /\ meta_calls < MaxMetaCalls
    /\ \E f \in MetaFiles :
          LET file_path == FilePath(f)
              old == IF file_path \in DOMAIN meta_metadata
                     THEN meta_metadata[file_path]
                     ELSE [tags |-> {}, patterns |-> {}, directory_group |-> <<>>]
              directory_group ==
                  IF current_root # <<>>
                  THEN IF f.dir \in DOMAIN da_groups
                       THEN <<da_groups[f.dir]>> ELSE <<>>
                  ELSE old.directory_group
              file_name ==
                  [i \in 1..Len(f.name) |->
                      IF \E k \in 1..26 : UpperLetters[k] = f.name[i]
                      THEN LowerLetters[CHOOSE k \in 1..26 :
                                           UpperLetters[k] = f.name[i]]
                      ELSE f.name[i]]
              hit == {k \in 1..Len(COMMON_PATTERNS) : matches_file(k, file_name)}
              new == [k \in 1..Len(COMMON_PATTERNS) |->
                         IF k \in hit THEN NewPattern(meta_patterns[k], file_name)
                         ELSE meta_patterns[k]]
              tags == generate_tags(f.name, {COMMON_PATTERNS[k] : k \in hit},
                                    parse_file_name(f.name), directory_group,
                                    f.st)
          IN /\ meta_patterns' = new
             /\ meta_matched' = [k \in 1..Len(COMMON_PATTERNS) |->
                                    IF k \in hit THEN meta_matched[k] + 1
                                    ELSE meta_matched[k]]
             /\ meta_metadata' =
                   (file_path :>
                       [tags |-> tags_update(old.tags, tags),
                        patterns |-> old.patterns \cup
                            {[pattern |-> k, matches |-> new[k].matches,
                              examples |-> new[k].examples] : k \in hit},
                        directory_group |-> directory_group])
                   @@ meta_metadata
             /\ meta_last' = [op |-> "analyze_file", path |-> file_path,
                              name |-> <<>>, before |-> meta_metadata,
                           current_root |-> current_root]
    /\ meta_calls' = meta_calls + 1
    /\ UNCHANGED notMetaVars

\* metadata.py lines 276-283
MetaAddTag ==
    /\ da_pc \in {"ready", "done"}
    /\ meta_calls < MaxMetaCalls
    /\ \E f \in MetaFiles, tag_name \in MetaTagNames :
          /\ meta_metadata' =
                IF FilePath(f) \in DOMAIN meta_metadata
                THEN [meta_metadata EXCEPT
                         ![FilePath(f)].tags = add_tag(@, tag_name)]
                ELSE meta_metadata
          /\ meta_last' = [op |-> "add_tag", path |-> FilePath(f),
                           name |-> tag_name, before |-> meta_metadata,
                           current_root |-> current_root]
    /\ meta_calls' = meta_calls + 1
    /\ UNCHANGED <<meta_patterns, meta_matched>>
    /\ UNCHANGED notMetaVars

\* metadata.py lines 285-292
MetaRemoveTag ==
    /\ da_pc \in {"ready", "done"}
    /\ meta_calls < MaxMetaCalls
    /\ \E f \in MetaFiles, tag_name \in MetaTagNames :
          /\ meta_metadata' =
                IF FilePath(f) \in DOMAIN meta_metadata
                THEN [meta_metadata EXCEPT
                         ![FilePath(f)].tags = remove_tag(@, tag_name)]
                ELSE meta_metadata
          /\ meta_last' = [op |-> "remove_tag", path |-> FilePath(f),
                           name |-> tag_name, before |-> meta_metadata,
                           current_root |-> current_root]
    /\ meta_calls' = meta_calls + 1
    /\ UNCHANGED <<meta_patterns, meta_matched>>
    /\ UNCHANGED notMetaVars

NextMetadataService ==
    \/ MetaAnalyzeFile
    \/ MetaAddTag
    \/ MetaRemoveTag

\* ---------------------------------------------------------- specifications
InitScan ==
    /\ InitScanner /\ IdleCatalog /\ IdleStats /\ IdleMigrate /\ IdleService
    /\ IdleParser /\ IdleAnalyzer /\ IdleTagger /\ IdleMetadataService

NextScan == NextScanner

SpecScan == InitScan /\ [][NextScan]_vars

InitCatalog ==
    /\ IdleScanner /\ InitCatalogTables /\ IdleStats /\ IdleMigrate
    /\ IdleService /\ IdleParser /\ IdleAnalyzer /\ IdleTagger /\ IdleMetadataService

NextCatalog == NextCatalogManager

SpecCatalog == InitCatalog /\ [][NextCatalog]_vars

InitStats ==
    /\ IdleScanner /\ IdleCatalog /\ InitStatsTables /\ IdleMigrate
    /\ IdleService /\ IdleParser /\ IdleAnalyzer /\ IdleTagger /\ IdleMetadataService

NextStats == NextStatsManager

SpecStats == InitStats /\ [][NextStats]_vars

SpecRecatalog == InitCatalog /\ [][NextRecatalog]_vars

InitMigrate ==
    /\ IdleScanner /\ IdleCatalog /\ IdleStats /\ InitDatabase /\ IdleService
    /\ IdleParser /\ IdleAnalyzer /\ IdleTagger /\ IdleMetadataService

SpecMigrate == InitMigrate /\ [][NextMigrate]_vars

InitService ==
    /\ IdleScanner /\ IdleCatalog /\ IdleStats /\ MigratedDatabase
    /\ InitServiceData /\ IdleParser /\ IdleAnalyzer /\ IdleTagger /\ IdleMetadataService

SpecService == InitService /\ [][NextService]_vars

InitParse ==
    /\ IdleScanner /\ IdleCatalog /\ IdleStats /\ IdleMigrate /\ IdleService
    /\ InitParser /\ IdleAnalyzer /\ IdleTagger /\ IdleMetadataService

SpecParse == InitParse /\ [][NextParser]_vars

InitAnalyze ==
    /\ IdleScanner /\ IdleCatalog /\ IdleStats /\ IdleMigrate /\ IdleService
    /\ IdleParser /\ InitAnalyzer /\ IdleTagger /\ IdleMetadataService

SpecAnalyze == InitAnalyze /\ [][NextAnalyzer]_vars

InitTag ==
    /\ IdleScanner /\ IdleCatalog /\ IdleStats /\ IdleMigrate /\ IdleService
    /\ IdleParser /\ IdleAnalyzer /\ InitTagger /\ IdleMetadataService

SpecTag == InitTag /\ [][NextTagger]_vars

\* the service with its directory analyzer
InitMeta ==
    /\ IdleScanner /\ IdleCatalog /\ IdleStats /\ IdleMigrate /\ IdleService
    /\ IdleParser /\ IdleTagger /\ InitMetadataService
    /\ da_pc = "ready" /\ da_tree = MetaTree /\ da_stack = <<>>
    /\ da_groups = <<>> /\ da_result = <<>> /\ da_returned = <<>>
    /\ da_raised = {} /\ da_differing = {}

SpecMeta == InitMeta /\ [][NextAnalyzer \/ NextMetadataService]_vars

\* the analyzer on one directory of named files
InitPattern ==
    /\ IdleScanner /\ IdleCatalog /\ IdleStats /\ IdleMigrate /\ IdleService
    /\ IdleParser /\ IdleTagger /\ IdleMetadataService
    /\ da_pc = "ready" /\ da_tree \in PatternTrees /\ da_stack = <<>>
    /\ da_groups = <<>> /\ da_result = <<>> /\ da_returned = <<>>
    /\ da_raised = {} /\ da_differing = {}

SpecPattern == InitPattern /\ [][NextAnalyzer]_vars

\* ------------------------------------------------------- claims: scanner
PathsOf(fs) == [i \in 1..Len(fs) |-> fs[i].path]

RECURSIVE SumSize(_)
SumSize(stats) ==
    IF stats = <<>> THEN 0
    ELSE stats[1].size + SumSize(Tail(stats))

RECURSIVE AcceptedPaths(_, _)
AcceptedPaths(es, opts) ==
    IF es = <<>> THEN <<>>
    ELSE (IF Accepted(es[1], opts) THEN <<es[1].path>> ELSE <<>>)
         \o AcceptedPaths(Tail(es), opts)

RECURSIVE Without(_, _)
Without(ps, bad) ==
    IF ps = <<>> THEN <<>>
    ELSE (IF ps[1] \in bad THEN <<>> ELSE <<ps[1]>>) \o Without(Tail(ps), bad)

\* C1: every ScanResult returned by scan() has total_files = len(files), on
\* the normal and on the interrupted path, also when processing a file failed.
C1_TotalFilesIsLen ==
    result # <<>> => result[1].total_files = Len(result[1].files)

\* C2: every ScanResult returned by scan() has total_size equal to the sum of
\* the sizes of its extension_stats, also when an interruption arrives at any
\* point of the per-file processing.
C2_TotalSizeIsSum ==
    result # <<>> => result[1].total_size = SumSize(result[1].extension_stats)

\* the number of files of file_paths whose FileInfo had been appended, or
\* whose processing had failed, when the interruption arrived
ReachedAtInterrupt ==
    IF interruptPc \in {"ext", "total", "dirs"} THEN procIdx ELSE procIdx - 1

\* C3: a scan interrupted in the processing loop does not raise and returns a
\* ScanResult whose files are exactly the files processed so far, in order,
\* and whose total_files is their number N, not the number M enumerated.
C3_PartialResult ==
    pc = "interrupted" =>
        /\ raised = ""
        /\ result # <<>>
        /\ PathsOf(result[1].files)
             = Without(SubSeq(file_paths, 1, ReachedAtInterrupt), statFailed)
        /\ result[1].total_files = Len(result[1].files)
        /\ result[1].total_files <= Len(file_paths)

C3_Witness ==
    /\ pc = "interrupted"
    /\ result # <<>>
    /\ result[1].total_files >= 1
    /\ result[1].total_files < Len(file_paths)
    /\ statFailed = {}

\* C4: constructing a FileScanner on a missing root or on a root that is not
\* a directory fails with InvalidPathError, before any entry is enumerated.
C4_InvalidPathError ==
    pc = "failed" =>
        /\ raised = "InvalidPathError"
        /\ enumIdx = 1
        /\ file_paths = <<>>

AncestorsOf(fs) ==
    UNION {{root_path \o SubSeq(ParentParts(fs[i]), 1, k) :
              k \in 1..Len(ParentParts(fs[i]))} : i \in 1..Len(fs)}

\* C6: in every ScanResult, directories holds each below-root ancestor of a
\* file of files exactly once, and nothing else.
C6_DirectoriesAreAncestors ==
    result # <<>> =>
        LET ds == result[1].directories IN
        /\ {ds[i].path : i \in 1..Len(ds)} = AncestorsOf(result[1].files)
        /\ \A i, j \in 1..Len(ds) : ds[i].path = ds[j].path => i = j

\* C7: with include_hidden = false no returned FileRecord has a name starting
\* with '.', and every returned FileRecord has is_hidden = false.
C7_NoHiddenFiles ==
    (result # <<>> /\ ~options.include_hidden) =>
        \A i \in 1..Len(result[1].files) :
            /\ ~startswith_dot(result[1].files[i].name)
            /\ result[1].files[i].is_hidden = FALSE

C7_Witness ==
    /\ pc = "done"
    /\ ~options.include_hidden
    /\ \E i \in 1..Len(entries) : entries[i].path = root_path \o <<NameH>>
    /\ root_path \o <<NameH>> \notin testFailed
    /\ Len(result[1].files) >= 1

\* ------------------------------------------------------- claims: catalog
Ceil(n, d) == (n + d - 1) \div d

TxRows(table) ==
    LET RECURSIVE Sum(_)
        Sum(t) == IF t = <<>> THEN 0 ELSE (t[1].hi - t[1].lo) + Sum(Tail(t))
    IN Sum(table)

\* C8: create_catalog inserts the n file rows in ceil(n/1000) transactions in
\* list order, each of 1000 rows except a shorter final one; when the k-th
\* batch fails the exception propagates, no row of that batch is stored and
\* the rows of batches 1..k-1 stay committed.
C8_FileBatches ==
    LET n == cat_input.nfiles IN
    /\ \A k \in 1..Len(file_tx) :
         /\ file_tx[k].lo = (k - 1) * batch_size
         /\ file_tx[k].hi = Min(k * batch_size, n)
         /\ (k < Ceil(n, batch_size) => file_tx[k].hi - file_tx[k].lo = batch_size)
         /\ (k = Ceil(n, batch_size) /\ n % batch_size # 0
               => file_tx[k].hi - file_tx[k].lo = n % batch_size)
    /\ cat_pc = "returned" =>
         /\ Len(file_tx) = Ceil(n, batch_size)
         /\ TxRows(file_tx) = n
    /\ cat_pc = "failed_files" =>
         /\ cat_raised # ""
         /\ Len(file_tx) = cat_i \div batch_size
         /\ TxRows(file_tx) = Len(file_tx) * batch_size
         /\ TxRows(file_tx) < n

C8_Witness ==
    /\ cat_pc = "failed_files"
    /\ cat_input.nfiles = 2500
    /\ Len(file_tx) = 2
    /\ TxRows(file_tx) = 2000

\* C9: no single transaction of create_catalog inserts more than 1000
\* directory rows.
C9_DirectoryChunks ==
    \A k \in 1..Len(dir_tx) : dir_tx[k].hi - dir_tx[k].lo <= batch_size

\* --------------------------------------------------------- claims: stats
RowsOf(rows, path) == {i \in 1..Len(rows) : rows[i].root_path = path}

Latest(idx) == CHOOSE i \in idx : \A j \in idx : j <= i

C10_OneCompleted ==
    \A p \in RootPaths :
        stats_last.outcome[p] = "completed" =>
            /\ RowsOf(scan_results, p) # {}
            /\ \A i \in RowsOf(scan_results, p) :
                 scan_results[i].status =
                    IF i = Latest(RowsOf(scan_results, p))
                    THEN "completed" ELSE "archived"

C10_Frame ==
    \A i \in 1..Len(scan_results) :
        /\ i <= Len(scan_results')
        /\ scan_results'[i].id = scan_results[i].id
        /\ scan_results'[i].root_path = scan_results[i].root_path
        /\ (scan_results[i].root_path # stats_last'.path
              => scan_results'[i] = scan_results[i])

C11_OneActivePerPath ==
    \A p \in RootPaths :
        LET idx == RowsOf(catalogs, p)
        IN Cardinality(idx) >= 2 =>
             \A i \in idx :
                 catalogs[i].status =
                     IF i = Latest(idx) THEN "active" ELSE "archived"

\* ------------------------------------------------ claims: schema migration
\* the columns of release CURRENT_VERSION, lines 240-245, 269-290, 295-297,
\* 312-313 and 324
C12_TargetSchema ==
    [version |-> {"id", "version"},
     scans |-> {"id", "scan_date", "root_path", "total_files", "total_size"},
     files |-> {"id", "scan_id", "name", "path", "size", "created",
                "modified", "extension", "tags", "category", "patterns",
                "subcategory", "parsed_info", "directory_info"}]

C12_StepsInOrder ==
    /\ mig_applied = [i \in 1..Len(mig_applied) |-> mig_start + i - 1]
    /\ (mig_pc = "done" /\ mig_start \in 0..CURRENT_VERSION)
         => /\ Len(mig_applied) = CURRENT_VERSION - mig_start
            /\ db_version = <<CURRENT_VERSION>>
            /\ db_schema = C12_TargetSchema

C12_NothingDropped ==
    \A t \in DOMAIN db_schema : db_schema[t] \subseteq db_schema'[t]

\* C12: for every stored version v in 0..4 init_db runs the steps v, v+1, ...,
\* 3 in that order, each once and none below v; when it succeeds table
\* version holds the single row 4 and the tables and columns are those of
\* release 4 whatever v was; no step ever removes a table or a column.
C12_MigrationChain == []C12_StepsInOrder /\ [][C12_NothingDropped]_vars

C12_Witness ==
    /\ mig_pc = "done"
    /\ mig_start = 1
    /\ mig_applied = <<1, 2, 3>>
    /\ db_version = <<CURRENT_VERSION>>

\* C13: an init_db call that finds a column of one of its steps already in
\* the table (an earlier call added it and failed before the version row
\* was written) does not raise on it.
C13_IdempotentRerun ==
    mig_pc = "failed" => mig_raised # "duplicate column name"

\* ---------------------------------------------------- claims: scan history
Ids(rows) == {rows[i].id : i \in 1..Len(rows)}

C14_NoRowDeleted ==
    /\ \A i \in 1..Len(svc_scans) :
         \E j \in 1..Len(svc_scans') : svc_scans'[j] = svc_scans[i]
    /\ Ids(scan_results) \subseteq Ids(scan_results')
    /\ Ids(catalogs) \subseteq Ids(catalogs')

\* C14: the scan history is append-only: no step of service start-up,
\* process_scan_result, save_scan_results, create_catalog, load_last_scan or
\* clear removes a committed row of scans, scan_results or catalogs.
C14_AppendOnly == [][C14_NoRowDeleted]_vars

\* --------------------------------------------------- claims: file names
\* the text the first pattern of a list that matches anywhere in s found
C15_FirstInList(found, s) ==
    LET ks == {k \in 1..Len(found) : found[k] # <<>>}
    IN IF ks = {} THEN <<>> ELSE <<found[Least(ks)][1]>>

C15_Winner(found, s) ==
    IF C15_FirstInList(found, s) = <<>> THEN <<>>
    ELSE <<group(s, C15_FirstInList(found, s)[1])>>

C15_Term(table, s) ==
    LET ks == {k \in 1..Len(table) :
                  str_find(str_upper(s), table[k].term) # 0}
    IN IF ks = {} THEN <<>> ELSE <<table[Least(ks)].desc>>

C16_Spelled(k, text) ==
    LET n(a, b) == int(SubSeq(text, a, b))
    IN CASE k = 1 -> [year |-> n(1, 4), month |-> n(6, 7), day |-> n(9, 10)]
         [] k = 2 -> [year |-> n(1, 4), month |-> n(5, 6), day |-> n(7, 8)]
         [] OTHER -> [year |-> n(7, 10), month |-> n(4, 5), day |-> n(1, 2)]

C16_RealDate(d) ==
    /\ d.year >= 1
    /\ d.month >= 1 /\ d.month <= 12
    /\ d.day >= 1 /\ d.day <= 31
    /\ d.month \in {4, 6, 9, 11} => d.day <= 30
    /\ d.month = 2 => d.day <= 29
    /\ (d.month = 2 /\ d.day = 29) =>
          (d.year % 400 = 0 \/ (d.year % 4 = 0 /\ d.year % 100 # 0))

\* the patterns, in the order ISO, YYYYMMDD, DD-MM-YYYY, whose match in s
\* spells a real date
C16_Valid(s) ==
    {k \in 1..3 :
        /\ re_search(DATE_PATTERNS[k].items, s) # <<>>
        /\ C16_RealDate(C16_Spelled(k,
              group(s, re_search(DATE_PATTERNS[k].items, s)[1])))}

\* C16: the date patterns are tried in the order ISO, YYYYMMDD, DD-MM-YYYY; a
\* match that spells no real calendar date is skipped and the next pattern is
\* tried; the date is null only when no pattern gives a real date, and a
\* recorded date is always a real calendar date.
C16_DateOrder ==
    parsed # <<>> =>
      LET s == path_stem(parse_path)
          r == parsed[1]
      IN IF C16_Valid(s) = {} THEN r.date = <<>>
         ELSE LET k == Least(C16_Valid(s))
              IN /\ r.date = <<C16_Spelled(k,
                       group(s, re_search(DATE_PATTERNS[k].items, s)[1]))>>
                 /\ C16_RealDate(r.date[1])

C16_Witness ==
    /\ parsed # <<>>
    /\ LET s == path_stem(parse_path)
       IN /\ re_search(DATE_PATTERNS[1].items, s) # <<>>
          /\ 1 \notin C16_Valid(s)
          /\ parsed[1].date # <<>>

\* the project codes the matcher finds in the stems of the files fs
FileCodes(fs) ==
    {ProjectCodeMatcher_match(path_stem(fs[i])) : i \in 1..Len(fs)} \ {<<>>}

\* C17: every group returned for a directory whose own files give two or
\* more distinct project codes has no project_code and a 'projects' entry
\* that is not empty, whatever its subdirectories are.
C17_MultiProjectFiles ==
    \A p \in DOMAIN da_returned :
        Cardinality(FileCodes(da_returned[p].files)) >= 2 =>
            LET pr == da_returned[p].metadata.projects
            IN /\ da_returned[p].project_code = <<>>
               /\ pr # <<>>
               /\ IF pr[1] = "str" THEN pr[2] # <<>> ELSE pr[2] # {}

\* code c can be read from the 'projects' entry pr
Recorded(c, pr) ==
    /\ pr # <<>>
    /\ IF pr[1] = "set" THEN c \in pr[2] ELSE str_find(pr[2], c) # 0

\* the adoption clause of C18, as a property of steps: a step that changes
\* the project_code of the group of a call in progress to a code is the
\* return of a subdirectory with that code to a group that had none
C18_AdoptOnlyIfNone ==
    \A k \in 1..Len(da_stack') :
        (/\ k <= Len(da_stack)
         /\ da_stack[k].at = "loop"
         /\ da_stack'[k].group.project_code # <<>>
         /\ da_stack'[k].group.project_code # da_stack[k].group.project_code)
        => /\ da_stack[k].group.project_code = <<>>
           /\ k + 1 = Len(da_stack)
           /\ da_stack'[k].group.project_code = da_stack[k + 1].group.project_code

\* C18: a subdirectory's project code is adopted only by a parent that has
\* none or agrees; once a differing code has downgraded the parent, the group
\* returned for it has no project_code, whatever further subdirectories
\* report, and every differing code can be read from its 'projects' entry.
C18_DowngradeIsFinal ==
    \A d \in da_differing :
        d[1] \in DOMAIN da_returned =>
            /\ da_returned[d[1]].project_code = <<>>
            /\ Recorded(d[2], da_returned[d[1]].metadata.projects)

\* the paths of the directories of the tree node at path p
RECURSIVE TreePaths(_, _)
TreePaths(node, p) ==
    {p} \cup UNION {TreePaths(node.dirs[k], SubPath(p, k)) :
                       k \in 1..Len(node.dirs)}

\* C19: once analyze_directory has returned, every directory whose analysis
\* raised has a group with the error text under 'error', that group is among
\* the subdirs of its parent's group, and every sibling directory has been
\* analysed.
C19_ErrorContained ==
    da_pc = "done" =>
        \A p \in da_raised :
            /\ p \in DOMAIN da_returned
            /\ da_returned[p].metadata.error # <<>>
            /\ p # root_path =>
                  /\ \E k \in 1..Len(da_returned[path_parent(p)].subdirs) :
                        da_returned[path_parent(p)].subdirs[k] = da_returned[p]
                  /\ \A q \in TreePaths(da_tree, root_path) :
                        (q # root_path /\ path_parent(q) = path_parent(p))
                        => q \in DOMAIN da_returned

\* the size-bucket tags among tags
SizeTags(tags) == {t \in tags : t.name[1] = "size"}

\* the bucket of a size of n bytes, by the ranges of the ladder
C20_Bucket(n) ==
    CASE n \in 0..1023 -> "tiny"
      [] n \in 1024..1048575 -> "small"
      [] n \in 1048576..10485759 -> "medium"
      [] n \in 10485760..104857599 -> "large"
      [] OTHER -> "huge"

\* C20, as stated: every file generate_tags has tagged carries exactly one
\* size-bucket tag, the one the ladder gives for its size.
C20_ExactlyOneSizeTag ==
    tag_pc = "done" =>
        /\ Cardinality(SizeTags(tag_result)) = 1
        /\ tag_input.st # <<>> =>
              \A t \in SizeTags(tag_result) :
                  t.name[2] = C20_Bucket(tag_input.st[1])

\* C20, amended: a file whose stat() succeeds carries exactly one size-bucket
\* tag, the one the ladder gives for its size (500 bytes tiny, 1024 bytes
\* small, 5 MiB medium); a file whose stat() raises carries none.
C20_SizeTagIfStat ==
    tag_pc = "done" =>
        IF tag_input.st = <<>> THEN SizeTags(tag_result) = {}
        ELSE /\ SizeTags(tag_result) =
                   {[name |-> <<"size", C20_Bucket(tag_input.st[1])>>,
                     source |-> "auto", confidence |-> 100]}
             /\ tag_input.st[1] = 500 =>
                   \A t \in SizeTags(tag_result) : t.name[2] = "tiny"
             /\ tag_input.st[1] = 1024 =>
                   \A t \in SizeTags(tag_result) : t.name[2] = "small"
             /\ tag_input.st[1] = 5 * 1024 * 1024 =>
                   \A t \in SizeTags(tag_result) : t.name[2] = "medium"

C20_Witness ==
    /\ tag_pc = "done"
    /\ tag_input.st = <<1024>>
    /\ \E t \in tag_result : t.name = <<"size", "small">>
    /\ Cardinality(tag_result) > 1

\* the tags of tags that carry the name n
Named(tags, n) == {t \in tags : t.name = n}

\* no file holds two tags of one name and source
C21_OnePerNameAndSource ==
    \A p \in DOMAIN meta_metadata :
        \A t, u \in meta_metadata[p].tags :
            (t.name = u.name /\ t.source = u.source) => t = u

\* after add_tag(path, n) on a file that carried an auto tag named n, that
\* tag is still there and a user tag named n is there as well
C21_AutoAndUserCoexist ==
    (/\ meta_last.op = "add_tag"
     /\ meta_last.path \in DOMAIN meta_last.before)
    => \A a \in Named(meta_last.before[meta_last.path].tags, meta_last.name) :
           a.source = "auto" =>
               /\ a \in meta_metadata[meta_last.path].tags
               /\ \E u \in Named(meta_metadata[meta_last.path].tags,
                                 meta_last.name) :
                     u.source = "user" /\ u # a

\* C21: tag identity is (name, source): after any sequence of analyze_file
\* and add_tag (and remove_tag) calls no tag set holds two tags of the same
\* name and source, and add_tag(path, n) on a file with an auto tag named n
\* keeps that tag and adds a distinct user tag named n.
C21_TagIdentity == C21_OnePerNameAndSource /\ C21_AutoAndUserCoexist

C21_Witness ==
    /\ meta_last.op = "add_tag"
    /\ meta_last.path \in DOMAIN meta_last.before
    /\ {t.source : t \in Named(meta_last.before[meta_last.path].tags,
                               meta_last.name)} = {"auto"}
    /\ {t.source : t \in Named(meta_metadata[meta_last.path].tags,
                               meta_last.name)} = {"auto", "user"}

\* C22: remove_tag(path, n) removes from the file every tag named n, of the
\* user and auto alike, keeps every tag of the file with another name and
\* adds none, and leaves every other file as it was.
C22_RemoveByName ==
    meta_last.op = "remove_tag" =>
        /\ DOMAIN meta_metadata = DOMAIN meta_last.before
        /\ \A q \in DOMAIN meta_metadata :
              IF q # meta_last.path
              THEN meta_metadata[q] = meta_last.before[q]
              ELSE /\ Named(meta_metadata[q].tags, meta_last.name) = {}
                   /\ \A t \in meta_metadata[q].tags \cup meta_last.before[q].tags :
                         t.name # meta_last.name =>
                             (t \in meta_metadata[q].tags
                                <=> t \in meta_last.before[q].tags)

C22_Witness ==
    /\ meta_last.op = "remove_tag"
    /\ meta_last.path \in DOMAIN meta_last.before
    /\ {t.source : t \in Named(meta_last.before[meta_last.path].tags,
                               meta_last.name)} = {"auto", "user"}
    /\ meta_metadata[meta_last.path].tags # {}
    /\ \E q \in DOMAIN meta_metadata :
          q # meta_last.path /\ meta_metadata[q].tags # {}

\* C23: every pattern of the PatternAnalyzer holds at most 4 examples, and
\* its match count is the number of analyze_file calls in which it matched.
C23_BoundedExamples ==
    \A k \in DOMAIN meta_patterns :
        /\ Len(meta_patterns[k].examples) <= 4
        /\ meta_patterns[k].matches = meta_matched[k]

\* ------------------------------------------------- claims: observers
\* the batches the observers were told of by on_entries_added
Announced ==
    {svc_notified[i].batch :
        i \in {j \in DOMAIN svc_notified :
                  svc_notified[j].call = "on_entries_added"}}

Durable == {svc_files[i] : i \in DOMAIN svc_files}

\* C24: observers are told only of persisted batches: when a later batch of
\* a process_scan_result call has failed, every batch announced by
\* on_entries_added is still stored in the files table.
C24_AnnouncedIsDurable ==
    (/\ svc_pc = "up"
     /\ svc_raised = "Exception"
     /\ 0 < svc_i
     /\ svc_i < svc_input.nfiles)
    => Announced \subseteq Durable

\* ------------------------------------------------ claims: entry list
\* C29: between calls the entry list holds each file of the current scan at
\* most once: all its entries belong to one scan and no two of them cover
\* the same file, so nothing is left over or repeated from earlier calls.
C29_EntriesOfOneScanOnce ==
    svc_pc = "up" =>
        \A i, j \in DOMAIN _entries :
            /\ _entries[i].scan_id = _entries[j].scan_id
            /\ i < j => (\/ _entries[i].hi <= _entries[j].lo
                         \/ _entries[j].hi <= _entries[i].lo)

\* ------------------------------------------------ claims: old scans
\* C30: the delete of cleanup_old_scans cascades to the files table: every
\* files row references a scans row that exists.
C30_NoOrphanedFiles ==
    \A i \in DOMAIN svc_files :
        \E j \in DOMAIN svc_scans : svc_scans[j].id = svc_files[i].scan_id

\* ------------------------------------------- claims: hidden directories
\* C25: with include_hidden = false no returned FileRecord lies under a
\* directory whose name starts with '.', and no DirectoryRecord is produced
\* for such a directory.
C25_NoHiddenDirectories ==
    (result # <<>> /\ ~options.include_hidden) =>
        /\ \A i \in 1..Len(result[1].files) :
              \A k \in 1..Len(ParentParts(result[1].files[i])) :
                  ~startswith_dot(ParentParts(result[1].files[i])[k])
        /\ \A i \in 1..Len(result[1].directories) :
              ~startswith_dot(path_name(result[1].directories[i].path))

\* ------------------------------------------- claims: directory records
\* C28: in every ScanResult each DirectoryRecord has a depth >= 1 that is the
\* number of segments of its relative path, its parent_path is never null and
\* is the path one segment up (the scan root at depth 1), and every parent
\* other than the root stands in the list at an earlier index.
C28_AncestorFirst ==
    result # <<>> =>
        LET ds == result[1].directories IN
        \A i \in 1..Len(ds) :
            /\ ds[i].depth >= 1
            /\ ds[i].depth = Len(ds[i].path) - Len(root_path)
            /\ ds[i].relative_path
                 = SubSeq(ds[i].path, Len(root_path) + 1, Len(ds[i].path))
            /\ ds[i].parent_path = <<SubSeq(ds[i].path, 1, Len(ds[i].path) - 1)>>
            /\ (ds[i].depth = 1 <=> ds[i].parent_path = <<root_path>>)
            /\ ds[i].depth > 1 =>
                 \E j \in 1..(i - 1) : ds[j].path = ds[i].parent_path[1]

C28_Witness ==
    /\ result # <<>>
    /\ \E i, j \in 1..Len(result[1].directories) :
          /\ i < j
          /\ result[1].directories[i].depth = 1
          /\ result[1].directories[j].depth = 2
          /\ result[1].directories[j].parent_path
               = <<result[1].directories[i].path>>

\* ------------------------------------------------ claims: naming pattern
\* the stems of the direct files of a group
FileStems(g) == [i \in 1..Len(g.files) |-> path_stem(g.files[i])]

\* the sequence number of a stem: its first run of digits, <<>> without one
SequenceNumber(s) ==
    LET at == {i \in 1..Len(s) : s[i] \in DigitChars}
        lo == Least(at)
        hi == CHOOSE j \in lo..Len(s) :
                  /\ \A k \in lo..j : s[k] \in DigitChars
                  /\ (j = Len(s) \/ s[j + 1] \notin DigitChars)
    IN IF at = {} THEN <<>> ELSE <<int(SubSeq(s, lo, hi))>>

\* every stem has a number, no number repeats and none is left out between
\* two of them
Contiguous(stems) ==
    /\ stems # <<>>
    /\ \A i \in 1..Len(stems) : SequenceNumber(stems[i]) # <<>>
    /\ \A i, j \in 1..Len(stems) :
          /\ i # j => SequenceNumber(stems[i]) # SequenceNumber(stems[j])
          /\ \A n \in SequenceNumber(stems[i])[1]..SequenceNumber(stems[j])[1] :
                \E k \in 1..Len(stems) : SequenceNumber(stems[k]) = <<n>>

SequentialLabels ==
    {"Sequential numbering",
     "Sequential numbering + Date-based naming",
     "Sequential numbering + Version-based naming",
     "Sequential numbering + Date-based naming + Version-based naming"}

OrderedLabels ==
    SequentialLabels \cup
    {"Date-based naming", "Version-based naming",
     "Date-based naming + Version-based naming"}

\* C26: the pattern of a directory contains "Sequential numbering" exactly
\* when the sequence numbers of its direct files are as many as the files and
\* form a contiguous range without gaps or repeats, and the labels of a
\* pattern are joined with " + " in the order Sequential numbering,
\* Date-based naming, Version-based naming.
C26_SequentialNumbering ==
    \A p \in DOMAIN da_groups :
        LET g == da_groups[p] IN
        /\ g.pattern # <<>> => g.pattern[1] \in OrderedLabels
        /\ (g.pattern # <<>> /\ g.pattern[1] \in SequentialLabels)
             <=> Contiguous(FileStems(g))

C26_Witness ==
    /\ da_pc = "done"
    /\ da_result[1].files = FiveFiles
    /\ da_result[1].pattern = <<"Sequential numbering + Version-based naming">>
    /\ root_path \in DOMAIN da_groups

\* ------------------------------------------------- claims: common prefix
IsPrefixOfAll(x, stems) ==
    \A i \in 1..Len(stems) :
        Len(x) <= Len(stems[i]) /\ SubSeq(stems[i], 1, Len(x)) = x

\* C27: a common_prefix that is not null has at least 4 characters and is
\* the longest string that is a prefix of the stem of every direct file.
C27_LongestCommonPrefix ==
    \A p \in DOMAIN da_groups :
        LET g == da_groups[p]
            stems == FileStems(g)
        IN g.common_prefix # <<>> =>
              /\ Len(g.common_prefix[1]) >= 4
              /\ stems # <<>>
              /\ IsPrefixOfAll(g.common_prefix[1], stems)
              /\ \A n \in (Len(g.common_prefix[1]) + 1)..Len(stems[1]) :
                    ~IsPrefixOfAll(SubSeq(stems[1], 1, n), stems)

C27_Witness ==
    /\ da_pc = "done"
    /\ Len(da_result[1].files) = 3
    /\ da_result[1].common_prefix = <<<<"r", "e", "p", "_", "v">>>>
    /\ root_path \in DOMAIN da_groups

====
